---- MODULE Spec2Model ----
(***************************************************************************)
(* F1 Strategy Agent: the strategy DSL parser (parseStrategyDSL) and the   *)
(* race simulation engine (simulateRace), modelled as one pipeline:        *)
(*   raw text -> parser -> validated document -> simulation -> result.     *)
(*                                                                         *)
(* A text is a sequence of lines.  A line is a record whose field k says   *)
(* which of the parser's line patterns the line matches and whose other    *)
(* fields are the pattern's capture groups, kept as the tokens the pattern *)
(* admits: \d+ groups are digit sequences, \w+ groups are words in any     *)
(* letter case, the [\d.]+ group is a sequence of digits and dots.         *)
(***************************************************************************)
EXTENDS Integers, Sequences, FiniteSets, TLC

VARIABLES
    lines,            \* the input text, split in lines
    lineIndex,        \* the parser's line cursor (0-based)
    errors,           \* blocking diagnostics collected so far
    warnings,         \* parser warnings
    raceConfig,       \* Option(RaceConfig)
    carProfile,       \* Option(CarProfile)
    trackAero,        \* Option(AeroClassification)
    trackOvertaking,  \* Option(OvertakingDifficulty)
    trackChance,      \* Option(number), the number possibly NaN
    strategy,         \* Option(Strategy)
    criticalTurns,    \* list of CriticalTurn
    previousWinner,   \* Option(PreviousWinnerStrategy)
    result,           \* Option(DSLParseResult)
    pc,               \* position in the pipeline
    currentPosition,  \* simulateRace: running position
    currentLap,       \* simulateRace: laps simulated so far
    stintIdx,         \* simulateRace: index of the stint being run (0-based)
    lapInStint,       \* simulateRace: laps run in the current stint
    fuelLoad,         \* simulateRace: remaining fuel, in tenths of a kg
    lapData,          \* simulateRace: the LapRecords produced so far
    stintMetrics,     \* simulateRace: the StintMetrics produced so far
    stintStartPosition, \* simulateRace: position at the start of the current stint
    simWarnings,      \* simulateRace: the warnings pushed so far
    trackData,        \* simulateRace: the track data of the race's circuit
    totalPitTimeLoss, \* simulateRace: pit time lost so far, in hundredths of a second
    sim,              \* Option(SimulationResult)
    history,          \* the finished invocations of simulateRace: inputs and results
    tables,           \* the module-level domain tables of the simulation engine
    stage,            \* POST /api/strategy: the handler's step ("direct": no handler)
    calls,            \* POST /api/strategy: the functions the handler has called
    llmResult,        \* POST /api/strategy: Option(LLMResult)
    response,         \* POST /api/strategy: Option(response)
    requests,         \* POST /api/strategy: requests received so far
    attempt,          \* callOpenAIWithRetry: the attempt being made (0: none)
    backoffMs,        \* callOpenAIWithRetry: the next sleep
    sleeps,           \* callOpenAIWithRetry: the sleeps made, in ms
    attempts,         \* callOpenAIWithRetry: the outcome of each attempt made
    files,            \* the reports directory: the set of file names
    reportSeq,        \* reports saved so far (each gets a fresh id)
    deleteResponse    \* DELETE /api/reports/[id]: Option(request and response)

parserVars == <<lines, lineIndex, errors, warnings, raceConfig, carProfile, trackAero,
                trackOvertaking, trackChance, strategy, criticalTurns, previousWinner,
                result>>
simVars == <<currentPosition, currentLap, stintIdx, lapInStint, fuelLoad, lapData,
             stintMetrics, stintStartPosition, simWarnings, trackData, totalPitTimeLoss,
             sim, history>>
routeVars == <<stage, calls, llmResult, response, requests>>
llmVars == <<attempt, backoffMs, sleeps, attempts>>
reportVars == <<files, reportSeq, deleteResponse>>
otherVars == <<tables, routeVars, llmVars, reportVars>>
vars == <<parserVars, pc, simVars, otherVars>>

\* ---------------------------------------------------------------------------
\* Options: a value that may be null/undefined is a sequence of length 0 or 1.
None == <<>>
Some(v) == <<v>>
IsNone(o) == o = <<>>
Get(o) == o[1]

Min(a, b) == IF a < b THEN a ELSE b
Max(a, b) == IF a > b THEN a ELSE b

\* ---------------------------------------------------------------------------
\* Validation helpers (closed enums)
VALID_WEATHER == {"cool", "normal", "hot", "wet"}
VALID_PACE_CLASS == {"front_runner", "midfield", "backmarker"}
VALID_RISK_PROFILE == {"conservative", "balanced", "aggressive"}
VALID_OVERTAKING == {"easy", "medium", "hard"}
VALID_AERO == {"downforce_reliant", "drag_reliant", "balanced"}
VALID_TIRES == {"SOFT", "MEDIUM", "HARD", "INTERMEDIATE", "WET"}

isValidWeather(s) == s \in VALID_WEATHER
isValidPaceClass(s) == s \in VALID_PACE_CLASS
isValidRiskProfile(s) == s \in VALID_RISK_PROFILE
isValidOvertaking(s) == s \in VALID_OVERTAKING
isValidAero(s) == s \in VALID_AERO
isValidTire(s) == s \in VALID_TIRES

\* String.prototype.toLowerCase / toUpperCase on the words of the model's texts
toLowerCase(s) ==
    CASE s = "WET" -> "wet"
      [] s = "Normal" -> "normal"
      [] s = "MIDFIELD" -> "midfield"
      [] s = "Aggressive" -> "aggressive"
      [] s = "HARD" -> "hard"
      [] s = "BALANCED" -> "balanced"
      [] s = "SOFT" -> "soft"
      [] s = "MEDIUM" -> "medium"
      [] s = "Tire_Stress" -> "tire_stress"
      [] OTHER -> s

toUpperCase(s) ==
    CASE s = "soft" -> "SOFT"
      [] s = "Medium" -> "MEDIUM"
      [] s = "hard" -> "HARD"
      [] s = "wet" -> "WET"
      [] s = "intermediate" -> "INTERMEDIATE"
      [] s = "hyper" -> "HYPER"
      [] OTHER -> s

\* Track names are kept as character sequences.  String.toUpperCase and
\* replace(/[^A-Z]/g, '') on them:
UpperCaseLetters == <<"A", "B", "C", "D", "E", "F", "G", "H", "I", "J", "K", "L", "M",
                     "N", "O", "P", "Q", "R", "S", "T", "U", "V", "W", "X", "Y", "Z">>
LowerCaseLetters == <<"a", "b", "c", "d", "e", "f", "g", "h", "i", "j", "k", "l", "m",
                     "n", "o", "p", "q", "r", "s", "t", "u", "v", "w", "x", "y", "z">>

toUpperCaseChars(cs) ==
    [j \in 1..Len(cs) |->
        IF \E i \in 1..26 : LowerCaseLetters[i] = cs[j]
        THEN UpperCaseLetters[CHOOSE i \in 1..26 : LowerCaseLetters[i] = cs[j]]
        ELSE cs[j]]

StripNonLetters(cs) == SelectSeq(cs, LAMBDA c : \E i \in 1..26 : UpperCaseLetters[i] = c)

\* parseInt(str, 10) on a \d+ capture: the decimal value of the digit sequence
RECURSIVE parseInt(_)
parseInt(ds) ==
    IF Len(ds) = 0 THEN 0
    ELSE 10 * parseInt(SubSeq(ds, 1, Len(ds) - 1)) + ds[Len(ds)]

\* parseFloat(str) on a [\d.]+ capture.  It reads the longest prefix that is a
\* decimal literal: digits, then optionally a dot and more digits; with no
\* digit at all in that prefix the result is NaN.  The value is num/den.
RECURSIVE DigitRun(_, _)
DigitRun(cs, i) ==   \* number of digit characters of cs from position i on
    IF i > Len(cs) \/ cs[i] = "." THEN 0 ELSE 1 + DigitRun(cs, i + 1)

CharDigit(c) == CASE c = "0" -> 0 [] c = "1" -> 1 [] c = "2" -> 2 [] c = "3" -> 3
                  [] c = "4" -> 4 [] c = "5" -> 5 [] c = "6" -> 6 [] c = "7" -> 7
                  [] c = "8" -> 8 [] c = "9" -> 9

RECURSIVE Pow10(_)
Pow10(n) == IF n = 0 THEN 1 ELSE 10 * Pow10(n - 1)

NaN == [nan |-> TRUE, num |-> 0, den |-> 1]

parseFloat(cs) ==
    LET ni == DigitRun(cs, 1)
        hasDot == ni < Len(cs)          \* the character after the integer digits is a dot
        nf == IF hasDot THEN DigitRun(cs, ni + 2) ELSE 0
        intDigits == [j \in 1..ni |-> CharDigit(cs[j])]
        fracDigits == [j \in 1..nf |-> CharDigit(cs[ni + 1 + j])]
    IN  IF ni + nf = 0 THEN NaN
        ELSE [nan |-> FALSE,
              num |-> parseInt(intDigits) * Pow10(nf) + parseInt(fracDigits),
              den |-> Pow10(nf)]

\* IEEE comparisons of a parsed number with 0 and 1: false for NaN
LessThanZero(x) == ~x.nan /\ x.num < 0
GreaterThanOne(x) == ~x.nan /\ x.num > x.den

\* ---------------------------------------------------------------------------
\* Line patterns: which pattern a (trimmed) line matches
RACE_PATTERN(l) == l.k = "RACE"
CAR_PATTERN(l) == l.k = "CAR"
TRACK_AERO_PATTERN(l) == l.k = "TRACK_AERO"
TRACK_OVERTAKING_PATTERN(l) == l.k = "TRACK_OVERTAKING"
STRATEGY_START_PATTERN(l) == l.k = "STRATEGY"
STINT_PATTERN(l) == l.k = "STINT"
TURN_PATTERN(l) == l.k = "TURN"
PREVIOUS_WINNER_YEAR_PATTERN(l) == l.k = "YEAR"
PREVIOUS_WINNER_STINT_PATTERN(l) == l.k = "PW_STINT"
IsEmptyLine(l) == l.k = "blank"                 \* line.trim() === ''
IsEnd(l) == l.k = "END"                         \* line.toUpperCase() === 'END'
IsCriticalTurns(l) == l.k = "CRITICAL_TURNS"    \* toUpperCase() === 'CRITICAL_TURNS'
IsPreviousWinner(l) == l.k = "PREVIOUS_WINNER"  \* toUpperCase() === 'PREVIOUS_WINNER'
IsStintsHeader(l) == l.k = "STINTS:"            \* toUpperCase() === 'STINTS:'

\* lines[i] of the code, with the code's 0-based index
LineAt(i) == lines[i + 1]

addError(errs, idx, message, section) ==
    Append(errs, [line |-> idx + 1, message |-> message, section |-> section])

RECURSIVE skipEmpty(_)
skipEmpty(i) ==
    IF i < Len(lines) /\ IsEmptyLine(LineAt(i)) THEN skipEmpty(i + 1) ELSE i

\* Appends e to errs when cond holds
ErrIf(errs, cond, idx, message, section) ==
    IF cond THEN addError(errs, idx, message, section) ELSE errs


\* ---------------------------------------------------------------------------
\* Range checks of the parser
\* Variants of the range checks with a plausible slip: a forgotten upper bound,
\* an off-by-one lower bound.
RaceLapsInvalid_NoUpperBound(laps) == laps < 1
RaceLapsInvalid(laps) == laps < 1 \/ laps > 100
FieldSizeInvalid_OffByOne(field) == field < 1 \/ field > 30
FieldSizeInvalid(field) == field < 2 \/ field > 30
StintLapsInvalid_OffByOne(laps) == laps < 0
StintLapsInvalid(laps) == laps < 1
ChanceInvalid(chance) == LessThanZero(chance) \/ GreaterThanOne(chance)
StartExceedsField_OffByOne(start, field) == start > field + 1
StartExceedsField(start, field) == start > field

\* ---------------------------------------------------------------------------
\* parseRace
\* Variant that leaves the cursor on a line that is no RACE line:
parseRace_StaysOnMismatch ==
    /\ pc = "parseRace"
    /\ pc' = "parseCar"
    /\ LET i == skipEmpty(lineIndex) IN
       IF i >= Len(lines) THEN
            /\ errors' = addError(errors, i, "Missing RACE line", "RACE")
            /\ lineIndex' = i
            /\ UNCHANGED raceConfig
       ELSE IF ~RACE_PATTERN(LineAt(i)) THEN
            /\ errors' = addError(errors, i, "Invalid RACE line format", "RACE")
            /\ lineIndex' = i
            /\ UNCHANGED raceConfig
       ELSE LET l == LineAt(i)
                laps == parseInt(l.laps)
                field == parseInt(l.field)
                weather == toLowerCase(l.weather)
                e1 == ErrIf(errors, ~isValidWeather(weather), i, "Invalid weather", "RACE")
                e2 == ErrIf(e1, RaceLapsInvalid(laps), i, "Invalid lap count", "RACE")
                e3 == ErrIf(e2, FieldSizeInvalid(field), i, "Invalid field size", "RACE")
            IN  /\ errors' = e3
                /\ raceConfig' = Some([trackName |-> toUpperCaseChars(l.name), totalLaps |-> laps,
                                       weather |-> weather, fieldSize |-> field])
                /\ lineIndex' = i + 1
    /\ UNCHANGED <<lines, warnings, carProfile, trackAero, trackOvertaking, trackChance,
                   strategy, criticalTurns, previousWinner, result, simVars, otherVars>>

parseRace ==
    /\ pc = "parseRace"
    /\ pc' = "parseCar"
    /\ LET i == skipEmpty(lineIndex) IN
       IF i >= Len(lines) THEN
            /\ errors' = addError(errors, i, "Missing RACE line", "RACE")
            /\ lineIndex' = i
            /\ UNCHANGED raceConfig
       ELSE IF ~RACE_PATTERN(LineAt(i)) THEN
            /\ errors' = addError(errors, i, "Invalid RACE line format", "RACE")
            /\ lineIndex' = i + 1
            /\ UNCHANGED raceConfig
       ELSE LET l == LineAt(i)
                laps == parseInt(l.laps)
                field == parseInt(l.field)
                weather == toLowerCase(l.weather)
                e1 == ErrIf(errors, ~isValidWeather(weather), i, "Invalid weather", "RACE")
                e2 == ErrIf(e1, RaceLapsInvalid(laps), i, "Invalid lap count", "RACE")
                e3 == ErrIf(e2, FieldSizeInvalid(field), i, "Invalid field size", "RACE")
            IN  /\ errors' = e3
                /\ raceConfig' = Some([trackName |-> toUpperCaseChars(l.name), totalLaps |-> laps,
                                       weather |-> weather, fieldSize |-> field])
                /\ lineIndex' = i + 1
    /\ UNCHANGED <<lines, warnings, carProfile, trackAero, trackOvertaking, trackChance,
                   strategy, criticalTurns, previousWinner, result, simVars, otherVars>>

\* parseCar.  The TARGET group is undefined (None) when the token is omitted
\* and when it is TARGET=NONE.
\* Variant in which only the omitted token leaves the group undefined:
TargetGroup_OmittedOnly(l) == IF l.tform = "omitted" THEN None ELSE Some(l.target)
TargetGroup(l) == IF l.tform = "P" THEN Some(l.target) ELSE None

parseCar ==
    /\ pc = "parseCar"
    /\ pc' = "parseTrack"
    /\ LET i == skipEmpty(lineIndex) IN
       IF i >= Len(lines) THEN
            /\ errors' = addError(errors, i, "Missing CAR line", "CAR")
            /\ lineIndex' = i
            /\ UNCHANGED carProfile
       ELSE IF ~CAR_PATTERN(LineAt(i)) THEN
            /\ errors' = addError(errors, i, "Invalid CAR line format", "CAR")
            /\ lineIndex' = i + 1
            /\ UNCHANGED carProfile
       ELSE LET l == LineAt(i)
                start == parseInt(l.start)
                targetStr == TargetGroup(l)
                target == IF IsNone(targetStr) THEN None ELSE Some(parseInt(Get(targetStr)))
                pace == toLowerCase(l.pace)
                risk == toLowerCase(l.risk)
                e1 == ErrIf(errors, ~isValidPaceClass(pace), i, "Invalid pace class", "CAR")
                e2 == ErrIf(e1, ~isValidRiskProfile(risk), i, "Invalid risk profile", "CAR")
            IN  /\ errors' = e2
                /\ carProfile' = Some([startingGridPosition |-> start, paceClass |-> pace,
                                       riskProfile |-> risk, targetMinPosition |-> target])
                /\ lineIndex' = i + 1
    /\ UNCHANGED <<lines, warnings, raceConfig, trackAero, trackOvertaking, trackChance,
                   strategy, criticalTurns, previousWinner, result, simVars, otherVars>>

\* parseTrack, first half: the TRACK AERO line.  At the end of the text the
\* function returns, and the second half is not run.
parseTrackAero ==
    /\ pc = "parseTrack"
    /\ LET i == skipEmpty(lineIndex) IN
       IF i >= Len(lines) THEN
            /\ errors' = addError(errors, i, "Missing TRACK AERO line", "TRACK")
            /\ lineIndex' = i
            /\ pc' = "parseStrategy"
            /\ UNCHANGED trackAero
       ELSE IF ~TRACK_AERO_PATTERN(LineAt(i)) THEN
            /\ errors' = addError(errors, i, "Invalid TRACK AERO line format", "TRACK")
            /\ lineIndex' = i + 1
            /\ pc' = "parseTrackOvertaking"
            /\ UNCHANGED trackAero
       ELSE LET aero == toLowerCase(LineAt(i).aero) IN
            /\ errors' = ErrIf(errors, ~isValidAero(aero), i,
                               "Invalid aero classification", "TRACK")
            /\ trackAero' = IF isValidAero(aero) THEN Some(aero) ELSE trackAero
            /\ lineIndex' = i + 1
            /\ pc' = "parseTrackOvertaking"
    /\ UNCHANGED <<lines, warnings, raceConfig, carProfile, trackOvertaking, trackChance,
                   strategy, criticalTurns, previousWinner, result, simVars, otherVars>>

\* parseTrack, second half: the TRACK OVERTAKING line
parseTrackOvertaking ==
    /\ pc = "parseTrackOvertaking"
    /\ pc' = "parseStrategy"
    /\ LET i == skipEmpty(lineIndex) IN
       IF i >= Len(lines) THEN
            /\ errors' = addError(errors, i, "Missing TRACK OVERTAKING line", "TRACK")
            /\ lineIndex' = i
            /\ UNCHANGED <<trackOvertaking, trackChance>>
       ELSE IF ~TRACK_OVERTAKING_PATTERN(LineAt(i)) THEN
            /\ errors' = addError(errors, i, "Invalid TRACK OVERTAKING line format", "TRACK")
            /\ lineIndex' = i + 1
            /\ UNCHANGED <<trackOvertaking, trackChance>>
       ELSE LET overtaking == toLowerCase(LineAt(i).overtaking)
                chance == parseFloat(LineAt(i).chance)
                e1 == ErrIf(errors, ~isValidOvertaking(overtaking), i,
                            "Invalid overtaking difficulty", "TRACK")
                e2 == ErrIf(e1, ChanceInvalid(chance), i, "Invalid overtaking chance", "TRACK")
            IN  /\ errors' = e2
                /\ trackOvertaking' = IF isValidOvertaking(overtaking) THEN Some(overtaking)
                                      ELSE trackOvertaking
                /\ trackChance' = IF ChanceInvalid(chance) THEN trackChance ELSE Some(chance)
                /\ lineIndex' = i + 1
    /\ UNCHANGED <<lines, warnings, raceConfig, carProfile, trackAero, strategy,
                   criticalTurns, previousWinner, result, simVars, otherVars>>

\* parseStrategy: the STRATEGY "<label>" line, then the loop over the lines
\* up to END (or to the end of the text).
RECURSIVE StintLoop(_, _, _)
StintLoop(i, stints, errs) ==
    IF i >= Len(lines) THEN [i |-> i, stints |-> stints, errs |-> errs]
    ELSE LET l == LineAt(i) IN
         IF IsEnd(l) THEN [i |-> i + 1, stints |-> stints, errs |-> errs]
         ELSE IF IsEmptyLine(l) THEN StintLoop(i + 1, stints, errs)
         ELSE IF ~STINT_PATTERN(l) THEN
              StintLoop(i + 1, stints, addError(errs, i, "Invalid STINT line", "STRATEGY"))
         ELSE LET stintNum == parseInt(l.num)
                  laps == parseInt(l.laps)
                  tireUpper == toUpperCase(l.tire)
                  e1 == ErrIf(errs, ~isValidTire(tireUpper), i,
                              "Invalid tire compound", "STRATEGY")
                  e2 == ErrIf(e1, StintLapsInvalid(laps), i, "Invalid stint laps", "STRATEGY")
              IN  StintLoop(i + 1,
                            Append(stints, [stintNumber |-> stintNum,
                                            tireCompound |-> tireUpper,
                                            lapsInStint |-> laps]),
                            e2)

parseStrategy ==
    /\ pc = "parseStrategy"
    /\ pc' = "parseCriticalTurns"
    /\ LET i == skipEmpty(lineIndex) IN
       IF i >= Len(lines) THEN
            /\ errors' = addError(errors, i, "Missing STRATEGY block", "STRATEGY")
            /\ lineIndex' = i
            /\ UNCHANGED strategy
       ELSE IF ~STRATEGY_START_PATTERN(LineAt(i)) THEN
            /\ errors' = addError(errors, i, "Invalid STRATEGY start line", "STRATEGY")
            /\ lineIndex' = i + 1
            /\ UNCHANGED strategy
       ELSE LET r == StintLoop(i + 1, <<>>, errors) IN
            /\ errors' = ErrIf(r.errs, Len(r.stints) = 0, r.i,
                               "STRATEGY block must contain at least one STINT", "STRATEGY")
            /\ lineIndex' = r.i
            /\ strategy' = Some([label |-> LineAt(i).label, stints |-> r.stints])
    /\ UNCHANGED <<lines, warnings, raceConfig, carProfile, trackAero, trackOvertaking,
                   trackChance, criticalTurns, previousWinner, result, simVars, otherVars>>

\* parseCriticalTurns (optional block)
RECURSIVE TurnLoop(_, _, _)
TurnLoop(i, turns, errs) ==
    IF i >= Len(lines) THEN [i |-> i, turns |-> turns, errs |-> errs]
    ELSE LET l == LineAt(i) IN
         IF IsEnd(l) THEN [i |-> i + 1, turns |-> turns, errs |-> errs]
         ELSE IF IsEmptyLine(l) THEN TurnLoop(i + 1, turns, errs)
         ELSE IF ~TURN_PATTERN(l) THEN
              TurnLoop(i + 1, turns, addError(errs, i, "Invalid TURN line", "CRITICAL_TURNS"))
         ELSE TurnLoop(i + 1,
                       Append(turns, [turnNumber |-> parseInt(l.num), name |-> l.name,
                                      riskTags |-> [j \in 1..Len(l.risk) |->
                                                        toLowerCase(l.risk[j])],
                                      note |-> l.note]),
                       errs)

parseCriticalTurns ==
    /\ pc = "parseCriticalTurns"
    /\ pc' = "parsePreviousWinner"
    /\ LET i == skipEmpty(lineIndex) IN
       IF i >= Len(lines) \/ ~IsCriticalTurns(LineAt(i)) THEN
            /\ lineIndex' = i
            /\ UNCHANGED <<errors, criticalTurns>>
       ELSE LET r == TurnLoop(i + 1, criticalTurns, errors) IN
            /\ lineIndex' = r.i
            /\ errors' = r.errs
            /\ criticalTurns' = r.turns
    /\ UNCHANGED <<lines, warnings, raceConfig, carProfile, trackAero, trackOvertaking,
                   trackChance, strategy, previousWinner, result, simVars, otherVars>>

\* parsePreviousWinner (optional block)
RECURSIVE SkipToEnd(_)
SkipToEnd(i) ==   \* "Try to skip to END": the cursor ends after the END line, if any
    IF i < Len(lines) /\ ~IsEnd(LineAt(i)) THEN SkipToEnd(i + 1)
    ELSE IF i < Len(lines) THEN i + 1 ELSE i

RECURSIVE PwStintLoop(_, _, _)
PwStintLoop(i, pwStints, errs) ==
    IF i >= Len(lines) THEN [i |-> i, stints |-> pwStints, errs |-> errs]
    ELSE LET l == LineAt(i) IN
         IF IsEnd(l) THEN [i |-> i + 1, stints |-> pwStints, errs |-> errs]
         ELSE IF IsEmptyLine(l) THEN PwStintLoop(i + 1, pwStints, errs)
         ELSE IF ~PREVIOUS_WINNER_STINT_PATTERN(l) THEN
              PwStintLoop(i + 1, pwStints,
                          addError(errs, i, "Invalid PREVIOUS_WINNER stint line",
                                   "PREVIOUS_WINNER"))
         ELSE LET tireUpper == toUpperCase(l.tire) IN
              PwStintLoop(i + 1,
                          Append(pwStints, [tireCompound |-> tireUpper,
                                            laps |-> parseInt(l.laps)]),
                          ErrIf(errs, ~isValidTire(tireUpper), i,
                                "Invalid tire compound in PREVIOUS_WINNER", "PREVIOUS_WINNER"))

parsePreviousWinner ==
    /\ pc = "parsePreviousWinner"
    /\ pc' = "validate"
    /\ LET i == skipEmpty(lineIndex) IN
       IF i >= Len(lines) \/ ~IsPreviousWinner(LineAt(i)) THEN
            /\ lineIndex' = i
            /\ UNCHANGED <<errors, previousWinner>>
       ELSE LET j == skipEmpty(i + 1) IN
            IF j >= Len(lines) THEN
                /\ errors' = addError(errors, j, "PREVIOUS_WINNER block is empty",
                                      "PREVIOUS_WINNER")
                /\ lineIndex' = j
                /\ UNCHANGED previousWinner
            ELSE IF ~PREVIOUS_WINNER_YEAR_PATTERN(LineAt(j)) THEN
                /\ errors' = addError(errors, j, "Invalid PREVIOUS_WINNER year line",
                                      "PREVIOUS_WINNER")
                /\ lineIndex' = SkipToEnd(j)
                /\ UNCHANGED previousWinner
            ELSE LET year == parseInt(LineAt(j).year)
                     label == LineAt(j).label
                     m == skipEmpty(j + 1)
                 IN  IF m >= Len(lines) \/ ~IsStintsHeader(LineAt(m)) THEN
                        /\ previousWinner' = Some([year |-> year, label |-> label,
                                                   stints |-> <<>>])
                        /\ lineIndex' = m
                        /\ UNCHANGED errors
                     ELSE LET r == PwStintLoop(m + 1, <<>>, errors) IN
                        /\ previousWinner' = Some([year |-> year, label |-> label,
                                                   stints |-> r.stints])
                        /\ lineIndex' = r.i
                        /\ errors' = r.errs
    /\ UNCHANGED <<lines, warnings, raceConfig, carProfile, trackAero, trackOvertaking,
                   trackChance, strategy, criticalTurns, result, simVars, otherVars>>


\* ---------------------------------------------------------------------------
\* Main parsing, after the six section parsers: post-parse validation and
\* the construction of the DSLParseResult.
SumStintLaps(stints) ==
    LET RECURSIVE Sum(_)
        Sum(n) == IF n = 0 THEN 0 ELSE Sum(n - 1) + stints[n].lapsInStint
    IN  Sum(Len(stints))

HasWetTires(stints) ==
    \E n \in 1..Len(stints) : stints[n].tireCompound \in {"INTERMEDIATE", "WET"}

\* Variant of the post-parse warnings without the lap-sum comparison
PostParseWarnings_NoLapSum ==
    IF ~IsNone(raceConfig) /\ ~IsNone(strategy) THEN
        IF Get(raceConfig).weather = "wet" /\ ~HasWetTires(Get(strategy).stints)
        THEN Append(warnings, "no wet or intermediate tires") ELSE warnings
    ELSE warnings

PostParseWarnings ==
    IF ~IsNone(raceConfig) /\ ~IsNone(strategy) THEN
        LET stints == Get(strategy).stints
            w1 == IF SumStintLaps(stints) # Get(raceConfig).totalLaps
                  THEN Append(warnings, "does not match race laps") ELSE warnings
            w2 == IF Get(raceConfig).weather = "wet" /\ ~HasWetTires(stints)
                  THEN Append(w1, "no wet or intermediate tires") ELSE w1
        IN  w2
    ELSE warnings

PostParseErrors ==
    IF ~IsNone(raceConfig) /\ ~IsNone(carProfile) THEN
        ErrIf(errors,
              StartExceedsField(Get(carProfile).startingGridPosition,
                                Get(raceConfig).fieldSize),
              lineIndex, "Starting position exceeds field size", "CAR")
    ELSE errors

MissingSections ==
    \/ IsNone(raceConfig) \/ IsNone(carProfile) \/ IsNone(trackAero)
    \/ IsNone(trackOvertaking) \/ IsNone(trackChance) \/ IsNone(strategy)

\* Variant of BuildResult that reports the first diagnostic only
BuildResult_FirstErrorOnly(errs, warns) ==
    IF Len(errs) > 0 THEN
        [success |-> FALSE, data |-> None, errors |-> <<errs[1]>>, warnings |-> warns]
    ELSE IF MissingSections THEN
        [success |-> FALSE, data |-> None,
         errors |-> addError(errs, lineIndex, "Missing required sections in DSL", ""),
         warnings |-> warns]
    ELSE [success |-> TRUE,
          data |-> Some([raceConfig |-> Get(raceConfig),
                         carProfile |-> Get(carProfile),
                         trackProfile |->
                            [aeroClassification |-> Get(trackAero),
                             overtakingDifficulty |-> Get(trackOvertaking),
                             overtakingChance |-> Get(trackChance),
                             criticalTurns |-> criticalTurns,
                             previousWinnerStrategy |-> previousWinner],
                         strategy |-> Get(strategy)]),
          errors |-> <<>>, warnings |-> warns]

\* Variant of BuildResult that forgets to look at the collected diagnostics
BuildResult_NoErrorCheck(errs, warns) ==
    IF MissingSections THEN
        [success |-> FALSE, data |-> None,
         errors |-> addError(errs, lineIndex, "Missing required sections in DSL", ""),
         warnings |-> warns]
    ELSE [success |-> TRUE,
          data |-> Some([raceConfig |-> Get(raceConfig),
                         carProfile |-> Get(carProfile),
                         trackProfile |->
                            [aeroClassification |-> Get(trackAero),
                             overtakingDifficulty |-> Get(trackOvertaking),
                             overtakingChance |-> Get(trackChance),
                             criticalTurns |-> criticalTurns,
                             previousWinnerStrategy |-> previousWinner],
                         strategy |-> Get(strategy)]),
          errors |-> errs, warnings |-> warns]

BuildResult(errs, warns) ==
    IF Len(errs) > 0 THEN
        [success |-> FALSE, data |-> None, errors |-> errs, warnings |-> warns]
    ELSE IF MissingSections THEN
        [success |-> FALSE, data |-> None,
         errors |-> addError(errs, lineIndex, "Missing required sections in DSL", ""),
         warnings |-> warns]
    ELSE [success |-> TRUE,
          data |-> Some([raceConfig |-> Get(raceConfig),
                         carProfile |-> Get(carProfile),
                         trackProfile |->
                            [aeroClassification |-> Get(trackAero),
                             overtakingDifficulty |-> Get(trackOvertaking),
                             overtakingChance |-> Get(trackChance),
                             criticalTurns |-> criticalTurns,
                             previousWinnerStrategy |-> previousWinner],
                         strategy |-> Get(strategy)]),
          errors |-> <<>>, warnings |-> warns]

\* The parse result is returned; the caller (POST /api/strategy) runs the
\* simulation only on success with a document.
validate ==
    /\ pc = "validate"
    /\ LET r == BuildResult(PostParseErrors, PostParseWarnings) IN
        /\ result' = Some(r)
        /\ errors' = r.errors
        /\ warnings' = r.warnings
        /\ pc' = IF r.success /\ ~IsNone(r.data) THEN "simulate" ELSE "done"
    /\ UNCHANGED <<lines, lineIndex, raceConfig, carProfile, trackAero, trackOvertaking,
                   trackChance, strategy, criticalTurns, previousWinner, simVars, otherVars>>


\* ---------------------------------------------------------------------------
\* Simulation engine: domain tables.  Decimal table values are kept as
\* integers: abilities and aggressiveness in tenths, the track difficulty
\* multiplier in thousandths, fuel in tenths of a kg, tire management, pit
\* stop efficiency and the weather multiplier in hundredths.
PACE_CLASS_EFFECTS ==
    [front_runner |-> [overtakingAbility |-> 14, defenseAbility |-> 15,
                       realisticCeiling |-> 1, realisticFloor |-> 6, typicalFinish |-> 3],
     midfield |-> [overtakingAbility |-> 10, defenseAbility |-> 10,
                   realisticCeiling |-> 5, realisticFloor |-> 14, typicalFinish |-> 9],
     backmarker |-> [overtakingAbility |-> 6, defenseAbility |-> 7,
                     realisticCeiling |-> 10, realisticFloor |-> 20, typicalFinish |-> 16]]

RISK_PROFILE_EFFECTS ==
    [conservative |-> [overtakingAggressiveness |-> 7, tireManagement |-> 85,
                       pitStopEfficiency |-> 98],
     balanced |-> [overtakingAggressiveness |-> 10, tireManagement |-> 100,
                   pitStopEfficiency |-> 100],
     aggressive |-> [overtakingAggressiveness |-> 14, tireManagement |-> 120,
                     pitStopEfficiency |-> 105]]

WEATHER_DEGRADATION_MULTIPLIER ==
    [cool |-> 85, normal |-> 100, hot |-> 125, wet |-> 110]

trackDifficultyMultiplier(difficulty) ==
    CASE difficulty = "easy" -> 40
      [] difficulty = "medium" -> 25
      [] difficulty = "hard" -> 12
      [] OTHER -> 25

StartingFuel == 1100
FuelConsumptionPerLap == 18

\* Track data: lap times and pit losses in seconds, the fuel effect in
\* thousandths of a second per kg, fuel in tenths of a kg.
DEFAULT_TRACK_DATA ==
    [baseLapTime |-> 85, pitLaneTimeLoss |-> 22, fuelEffectPerKg |-> 35,
     startingFuelKg |-> StartingFuel, fuelConsumptionPerLap |-> FuelConsumptionPerLap]

TRACK_DATABASE ==
    <<"M", "O", "N", "Z", "A">> :> [baseLapTime |-> 82, pitLaneTimeLoss |-> 24] @@
    <<"M", "O", "N", "A", "C", "O">> :> [baseLapTime |-> 73, pitLaneTimeLoss |-> 18] @@
    <<"S", "P", "A">> :> [baseLapTime |-> 105, pitLaneTimeLoss |-> 21] @@
    <<"S", "I", "L", "V", "E", "R", "S", "T", "O", "N", "E">> :> [baseLapTime |-> 88, pitLaneTimeLoss |-> 20] @@
    <<"S", "U", "Z", "U", "K", "A">> :> [baseLapTime |-> 91, pitLaneTimeLoss |-> 22] @@
    <<"B", "A", "H", "R", "A", "I", "N">> :> [baseLapTime |-> 90, pitLaneTimeLoss |-> 21] @@
    <<"J", "E", "D", "D", "A", "H">> :> [baseLapTime |-> 88, pitLaneTimeLoss |-> 23] @@
    <<"M", "E", "L", "B", "O", "U", "R", "N", "E">> :> [baseLapTime |-> 79, pitLaneTimeLoss |-> 24] @@
    <<"I", "M", "O", "L", "A">> :> [baseLapTime |-> 76, pitLaneTimeLoss |-> 25] @@
    <<"M", "I", "A", "M", "I">> :> [baseLapTime |-> 89, pitLaneTimeLoss |-> 22] @@
    <<"B", "A", "R", "C", "E", "L", "O", "N", "A">> :> [baseLapTime |-> 78, pitLaneTimeLoss |-> 21] @@
    <<"M", "O", "N", "T", "R", "E", "A", "L">> :> [baseLapTime |-> 73, pitLaneTimeLoss |-> 23] @@
    <<"A", "U", "S", "T", "R", "I", "A">> :> [baseLapTime |-> 65, pitLaneTimeLoss |-> 20] @@
    <<"B", "U", "D", "A", "P", "E", "S", "T">> :> [baseLapTime |-> 77, pitLaneTimeLoss |-> 21] @@
    <<"Z", "A", "N", "D", "V", "O", "O", "R", "T">> :> [baseLapTime |-> 72, pitLaneTimeLoss |-> 18] @@
    <<"S", "I", "N", "G", "A", "P", "O", "R", "E">> :> [baseLapTime |-> 94, pitLaneTimeLoss |-> 26] @@
    <<"A", "U", "S", "T", "I", "N">> :> [baseLapTime |-> 96, pitLaneTimeLoss |-> 22] @@
    <<"M", "E", "X", "I", "C", "O">> :> [baseLapTime |-> 78, pitLaneTimeLoss |-> 20] @@
    <<"I", "N", "T", "E", "R", "L", "A", "G", "O", "S">> :> [baseLapTime |-> 72, pitLaneTimeLoss |-> 22] @@
    <<"V", "E", "G", "A", "S">> :> [baseLapTime |-> 93, pitLaneTimeLoss |-> 23] @@
    <<"Q", "A", "T", "A", "R">> :> [baseLapTime |-> 84, pitLaneTimeLoss |-> 21] @@
    <<"A", "B", "U", "_", "D", "H", "A", "B", "I">> :> [baseLapTime |-> 85, pitLaneTimeLoss |-> 20]

\* { ...DEFAULT_TRACK_DATA, ...specific }: the fields of specific override
SpreadOver(defaults, specific) ==
    [f \in DOMAIN defaults |->
        IF f \in DOMAIN specific THEN specific[f] ELSE defaults[f]]

getTrackData(trackName) ==
    LET normalized == StripNonLetters(toUpperCaseChars(trackName))
    IN  IF normalized \in DOMAIN tables.TRACK_DATABASE
        THEN SpreadOver(tables.DEFAULT_TRACK_DATA, tables.TRACK_DATABASE[normalized])
        ELSE tables.DEFAULT_TRACK_DATA

\* Tire profiles: initial grip in hundredths, degradation rate in thousandths
\* of a second per lap, cliff multiplier in tenths.
TIRE_PROFILES ==
    [SOFT |-> [initialGrip |-> 100, degradationRate |-> 80, cliffLap |-> 15,
               cliffMultiplier |-> 25],
     MEDIUM |-> [initialGrip |-> 97, degradationRate |-> 50, cliffLap |-> 25,
                 cliffMultiplier |-> 20],
     HARD |-> [initialGrip |-> 94, degradationRate |-> 30, cliffLap |-> 40,
               cliffMultiplier |-> 18],
     INTERMEDIATE |-> [initialGrip |-> 95, degradationRate |-> 40, cliffLap |-> 30,
                       cliffMultiplier |-> 20],
     WET |-> [initialGrip |-> 92, degradationRate |-> 35, cliffLap |-> 35,
              cliffMultiplier |-> 15]]

\* The tables are objects of the engine's module: each call reads them from
\* the module state, which starts as written in the source.
DomainTables ==
    [PACE_CLASS_EFFECTS |-> PACE_CLASS_EFFECTS,
     RISK_PROFILE_EFFECTS |-> RISK_PROFILE_EFFECTS,
     TIRE_PROFILES |-> TIRE_PROFILES,
     WEATHER_DEGRADATION_MULTIPLIER |-> WEATHER_DEGRADATION_MULTIPLIER,
     TRACK_DATABASE |-> TRACK_DATABASE,
     DEFAULT_TRACK_DATA |-> DEFAULT_TRACK_DATA]

\* calculateTireWear: the wear as the fraction num/den, den = 6 * cliffLap.
\*   baseWear = lapInStint / (cliffLap * 1.5)            = 4 * lapInStint / den
\*   extraWear = (lapInStint - cliffLap) / cliffLap * 0.5 = 3 * (lapInStint - cliffLap) / den
\* Variant without the Math.min(..., 1.0):
calculateTireWear_NoCap(lapOfStint, compound) ==
    LET cliffLap == tables.TIRE_PROFILES[compound].cliffLap
        den == 6 * cliffLap
        baseWear == 4 * lapOfStint
    IN  IF lapOfStint > cliffLap
        THEN [num |-> baseWear + 3 * (lapOfStint - cliffLap), den |-> den]
        ELSE [num |-> baseWear, den |-> den]

calculateTireWear(lapOfStint, compound) ==
    LET cliffLap == tables.TIRE_PROFILES[compound].cliffLap
        den == 6 * cliffLap
        baseWear == 4 * lapOfStint
    IN  IF lapOfStint > cliffLap
        THEN [num |-> Min(baseWear + 3 * (lapOfStint - cliffLap), den), den |-> den]
        ELSE [num |-> Min(baseWear, den), den |-> den]

\* The one comparison of simulateOvertaking on which IEEE-754 doubles differ
\* from exact arithmetic: 0.025 * 1.0 * 1.0 * 0.4 evaluates to
\* 0.010000000000000002, so the seed 0.01 is below it.
DoubleRoundsUp(T, A, G, f1, f2) == T = 25 /\ A = 10 /\ G = 10 /\ f1 = 4 /\ f2 = 10

\* First-lap regime of simulateOvertaking
\* Variant of the gain without the Math.max(realisticCeiling, ...):
FirstLapGainPosition_Unclamped(pos, ceiling, gain) == pos - gain
FirstLapGainPosition(pos, ceiling, gain) == Max(ceiling, pos - gain)
FirstLapLossPosition(pos, fieldSize, loss) == Min(fieldSize, pos + loss)

\* Variant of the first-lap regime without the pace-class ceiling constraint
FirstLapChange_NoCeiling(pos, paceClass, riskProfile, fieldSize) ==
    LET paceEffect == tables.PACE_CLASS_EFFECTS[paceClass]
        A == paceEffect.overtakingAbility
        D == paceEffect.defenseAbility
        G == tables.RISK_PROFILE_EFFECTS[riskProfile].overtakingAggressiveness
        k == (pos * 47 + 13) % 100
        potentialGain == IF pos > 10 THEN 3 ELSE IF pos > 5 THEN 2 ELSE 1
        potentialLoss == IF pos < 5 THEN 2 ELSE 1
        belowGain == 10 * k < 3 * A * G
        aboveLoss == k * D > 100 * D - 150
    IN  IF belowGain THEN
            LET gain == Min(potentialGain, ((10 * k * potentialGain) \div (3 * A * G)) + 1)
                newPosition == pos - gain
            IN  [newPosition |-> newPosition, overtook |-> newPosition < pos,
                 wasOvertaken |-> FALSE]
        ELSE IF aboveLoss THEN
            LET loss == Min(potentialLoss, 1)
                newPosition == FirstLapLossPosition(pos, fieldSize, loss)
            IN  [newPosition |-> newPosition, overtook |-> FALSE,
                 wasOvertaken |-> newPosition > pos]
        ELSE [newPosition |-> pos, overtook |-> FALSE, wasOvertaken |-> FALSE]

FirstLapChange(pos, paceClass, riskProfile, fieldSize) ==
    LET paceEffect == tables.PACE_CLASS_EFFECTS[paceClass]
        A == paceEffect.overtakingAbility
        D == paceEffect.defenseAbility
        G == tables.RISK_PROFILE_EFFECTS[riskProfile].overtakingAggressiveness
        atOrBeyondCeiling == pos <= paceEffect.realisticCeiling
        k == (pos * 47 + 13) % 100          \* firstLapSeed = k / 100
        potentialGain == IF pos > 10 THEN 3
                         ELSE IF pos > 5 THEN 2 ELSE 1
        potentialLoss == IF pos < 5 THEN 2 ELSE 1
        \* gainThreshold = 0.3 * A/10 * G/10; lossThreshold = 0.15 / (D/10)
        belowGain == 10 * k < 3 * A * G
        aboveLoss == k * D > 100 * D - 150
    IN  IF belowGain /\ ~atOrBeyondCeiling THEN
            LET gain == Min(potentialGain, ((10 * k * potentialGain) \div (3 * A * G)) + 1)
                newPosition == FirstLapGainPosition(pos,
                                                    paceEffect.realisticCeiling, gain)
            IN  [newPosition |-> newPosition, overtook |-> newPosition < pos,
                 wasOvertaken |-> FALSE]
        ELSE IF aboveLoss THEN
            LET loss == Min(potentialLoss, 1)
                newPosition == FirstLapLossPosition(pos, fieldSize, loss)
            IN  [newPosition |-> newPosition, overtook |-> FALSE,
                 wasOvertaken |-> newPosition > pos]
        ELSE [newPosition |-> pos, overtook |-> FALSE, wasOvertaken |-> FALSE]

\* Regular-lap regime of simulateOvertaking
\* Variant of the regular-lap overtake that gains two places
OvertakePosition_TwoPlaces(pos, ceiling) == Max(ceiling, pos - 2)
OvertakePosition(pos, ceiling) == Max(ceiling, pos - 1)
OvertakenPosition(pos, floor) == Min(floor, pos + 1)
CanBeOvertaken(pos, fieldSize) == pos < fieldSize

RegularLapChange(pos, difficulty, paceClass, riskProfile, lapNo, fieldSize) ==
    LET paceEffect == tables.PACE_CLASS_EFFECTS[paceClass]
        A == paceEffect.overtakingAbility
        D == paceEffect.defenseAbility
        G == tables.RISK_PROFILE_EFFECTS[riskProfile].overtakingAggressiveness
        T == trackDifficultyMultiplier(difficulty)
        atOrBeyondCeiling == pos <= paceEffect.realisticCeiling
        k == (lapNo * 17 + pos * 31) % 100      \* seed = k / 100
        \* overtakeProb = T/1000 * A/10 * G/10 * f1/10 * f2/10
        f1 == IF pos <= paceEffect.realisticCeiling + 2 THEN 1
              ELSE IF pos <= paceEffect.realisticCeiling + 4 THEN 4 ELSE 10
        f2 == IF pos > paceEffect.typicalFinish THEN 13 ELSE 10
        overtakeNum == T * A * G * f1 * f2                       \* over 10^7
        seedBelowOvertake ==
            \/ k * 100000 < overtakeNum
            \/ k * 100000 = overtakeNum /\ DoubleRoundsUp(T, A, G, f1, f2)
        \* overtakenProb = T/1000 * 0.5 / (D/10) * g1/10 * g2/10
        g1 == IF pos < paceEffect.typicalFinish - 2 THEN 15 ELSE 10
        g2 == IF pos >= paceEffect.realisticFloor THEN 3 ELSE 10
        overtakenNum == T * 5 * g1 * g2
        overtakenDen == 100000 * D
        seedAboveOvertaken == k * overtakenDen > 100 * overtakenDen - 100 * overtakenNum
    IN  IF seedBelowOvertake /\ pos > 1 /\ ~atOrBeyondCeiling THEN
            LET newPosition == OvertakePosition(pos, paceEffect.realisticCeiling)
            IN  [newPosition |-> newPosition, overtook |-> newPosition < pos,
                 wasOvertaken |-> FALSE]
        ELSE IF seedAboveOvertaken /\ CanBeOvertaken(pos, fieldSize) THEN
            LET newPosition == OvertakenPosition(pos, paceEffect.realisticFloor)
            IN  [newPosition |-> newPosition, overtook |-> FALSE,
                 wasOvertaken |-> newPosition > pos]
        ELSE [newPosition |-> pos, overtook |-> FALSE, wasOvertaken |-> FALSE]

simulateOvertaking(pos, trackProfile, paceClass, riskProfile, lapNo, isFirstLap, fieldSize) ==
    IF isFirstLap THEN FirstLapChange(pos, paceClass, riskProfile, fieldSize)
    ELSE RegularLapChange(pos, trackProfile.overtakingDifficulty, paceClass,
                          riskProfile, lapNo, fieldSize)

\* ---------------------------------------------------------------------------
\* simulateRace, on the document of a successful parse
Doc == Get(Get(result).data)
Stints == Doc.strategy.stints
CurrentStint == Stints[stintIdx + 1]

\* table[key] is undefined: a read of one of its properties throws
Undefined(table, key) == key \notin DOMAIN table

\* Simulation warnings.  The message is kept as a key and the number it
\* quotes (a stint number, a turn number) as the field about.
Warning(type, severity, message, about) ==
    [type |-> type, severity |-> severity, message |-> message, about |-> about]

WarnIf(cond, w) == IF cond THEN <<w>> ELSE <<>>

\* lapsInStint > cliffLap * 1.3, and the "near cliff" window below it
PastCliff(laps, cliffLap) == 10 * laps > 13 * cliffLap
\* Variant of the "near cliff" window without its upper end:
NearCliff_NoUpperEnd(laps, cliffLap) == laps > cliffLap
NearCliff(laps, cliffLap) == laps > cliffLap /\ 10 * laps <= 13 * cliffLap

\* Variant of the weather/tire mismatch that takes only WET for a wet tire
WeatherTireMismatch_WetOnly(weather, compound) ==
    weather = "wet" /\ compound # "WET"

WeatherTireMismatch(weather, compound) ==
    weather = "wet" /\ compound \notin {"INTERMEDIATE", "WET"}

\* The two checks made when a stint begins
StintWarnings(stint, weather) ==
    WarnIf(PastCliff(stint.lapsInStint, tables.TIRE_PROFILES[stint.tireCompound].cliffLap),
           Warning("tire", "high", "past cliff", stint.stintNumber))
    \o WarnIf(WeatherTireMismatch(weather, stint.tireCompound),
              Warning("weather", "critical", "dry tires in wet conditions",
                      stint.stintNumber))

\* Variant of the zero-stop check that looks at the first stint's laps
ZeroStopRisk_StintLaps(stints, totalLaps) ==
    Len(stints) = 1 /\ stints[1].lapsInStint > 40

ZeroStopRisk(stints, totalLaps) == Len(stints) = 1 /\ totalLaps > 40

RECURSIVE StintLengthWarnings(_, _)
StintLengthWarnings(stints, n) ==
    IF n > Len(stints) THEN <<>>
    ELSE LET stint == stints[n]
             cliffLap == tables.TIRE_PROFILES[stint.tireCompound].cliffLap
         IN  WarnIf(stint.lapsInStint < 8 /\ stint.stintNumber > 1,
                    Warning("strategy", "medium", "very short stint", stint.stintNumber))
             \o WarnIf(NearCliff(stint.lapsInStint, cliffLap),
                       Warning("tire", "medium", "near cliff", stint.stintNumber))
             \o StintLengthWarnings(stints, n + 1)

includes(tags, tag) == \E j \in 1..Len(tags) : tags[j] = tag

RECURSIVE TrackWarnings(_, _, _, _)
TrackWarnings(turns, stints, difficulty, n) ==
    IF n > Len(turns) THEN <<>>
    ELSE LET turn == turns[n] IN
         WarnIf(/\ includes(turn.riskTags, "tire_stress")
                /\ \E j \in 1..Len(stints) : stints[j].lapsInStint > 25,
                Warning("track", "medium", "may stress tires", turn.turnNumber))
         \o WarnIf(includes(turn.riskTags, "overtaking_zone") /\ difficulty = "hard",
                   Warning("track", "low", "few overtaking opportunities", turn.turnNumber))
         \o TrackWarnings(turns, stints, difficulty, n + 1)

\* The warning generation that follows the final metrics
FinalWarnings(race, car, strat, trackProfile) ==
    LET stints == strat.stints
        paceEffectFinal == tables.PACE_CLASS_EFFECTS[car.paceClass]
        start == car.startingGridPosition
        difficulty == trackProfile.overtakingDifficulty
        firstStint == stints[1]
        lastStint == stints[Len(stints)]
        \* car.targetMinPosition && ...: undefined and 0 are falsy
        hasTarget == ~IsNone(car.targetMinPosition) /\ Get(car.targetMinPosition) # 0
    IN  WarnIf(car.riskProfile = "aggressive",
               Warning("strategy", "medium", "aggressive increases tire wear", 0))
        \o WarnIf(car.riskProfile = "aggressive" /\ difficulty = "hard",
                  Warning("strategy", "high", "aggressive on low-overtaking track", 0))
        \o WarnIf(/\ car.riskProfile = "aggressive"
                  /\ \E j \in 1..Len(stints) :
                        stints[j].tireCompound = "SOFT" /\ stints[j].lapsInStint > 12,
                  Warning("tire", "high", "aggressive shortens soft tire life", 0))
        \o WarnIf(car.riskProfile = "conservative",
                  Warning("strategy", "low", "conservative limits overtaking", 0))
        \o WarnIf(start < paceEffectFinal.realisticCeiling,
                  Warning("strategy", "high", "start ahead of pace ceiling", start))
        \o WarnIf(start > paceEffectFinal.typicalFinish + 3,
                  Warning("strategy", "medium", "start below typical finish", start))
        \o WarnIf(hasTarget /\ Get(car.targetMinPosition) < paceEffectFinal.realisticCeiling,
                  Warning("strategy", "critical", "target unrealistic",
                          IF hasTarget THEN Get(car.targetMinPosition) ELSE 0))
        \o WarnIf(race.weather = "hot",
                  Warning("weather", "medium", "hot increases degradation", 0))
        \o WarnIf(/\ race.weather = "hot"
                  /\ \E j \in 1..Len(stints) :
                        stints[j].tireCompound = "SOFT" /\ stints[j].lapsInStint > 10,
                  Warning("tire", "high", "soft tires in hot conditions", 0))
        \o WarnIf(race.weather = "cool" /\ firstStint.tireCompound = "HARD",
                  Warning("tire", "medium", "hard tires in cool conditions", 0))
        \o WarnIf(race.weather = "wet",
                  Warning("weather", "medium", "wet conditions", 0))
        \o StintLengthWarnings(stints, 1)
        \o WarnIf(firstStint.tireCompound = "SOFT" /\ start > 10,
                  Warning("strategy", "medium", "soft tires from back of grid", 0))
        \o WarnIf(firstStint.tireCompound = "HARD" /\ start <= 5,
                  Warning("strategy", "medium", "hard tires from front positions", 0))
        \o WarnIf(lastStint.tireCompound = "SOFT" /\ lastStint.lapsInStint > 18,
                  Warning("tire", "high", "long final stint on soft tires", 0))
        \o TrackWarnings(trackProfile.criticalTurns, stints, difficulty, 1)
        \o WarnIf(ZeroStopRisk(stints, race.totalLaps),
                  Warning("strategy", "high", "zero-stop strategy on long race", 0))
        \o WarnIf(Len(stints) >= 3 /\ difficulty = "hard",
                  Warning("strategy", "high", "multiple stops on low-overtaking track", 0))
        \o WarnIf(Len(stints) >= 3 /\ difficulty = "medium",
                  Warning("strategy", "medium", "three or more stops", 0))
        \o WarnIf(car.paceClass = "backmarker" /\ car.riskProfile = "aggressive",
                  Warning("strategy", "medium", "aggressive backmarker", 0))
        \o WarnIf(difficulty # "easy" /\ Len(stints) >= 2,
                  Warning("strategy", "low", "pit timing critical", 0))
        \o WarnIf(start >= 8 /\ start <= 15,
                  Warning("traffic", "low", "congested midfield", 0))

\* Variant of the initialisation in which the lap counter is not a local of
\* the call: it goes on from the laps of the previous invocation
simulateRace_LapCounterKept ==
    /\ pc = "simulate"
    /\ stage \in {"direct", "simulate"}
    /\ pc' = "stint"
    /\ trackData' = getTrackData(Doc.raceConfig.trackName)
    /\ currentPosition' = Doc.carProfile.startingGridPosition
    /\ currentLap' = IF history = <<>> THEN 0
                     ELSE Len(history[Len(history)].result.lapData)
    /\ fuelLoad' = trackData'.startingFuelKg
    /\ stintIdx' = 0
    /\ lapData' = <<>>
    /\ stintMetrics' = <<>>
    /\ simWarnings' = <<>>
    /\ totalPitTimeLoss' = 0
    /\ UNCHANGED <<parserVars, otherVars, lapInStint, stintStartPosition, sim, history>>

\* Variant of the initialisation in which the circuit's data is merged into
\* the default track data itself, Object.assign(DEFAULT_TRACK_DATA, specific),
\* instead of into a copy
simulateRace_AssignsDefaults ==
    /\ pc = "simulate"
    /\ stage \in {"direct", "simulate"}
    /\ pc' = "stint"
    /\ trackData' = getTrackData(Doc.raceConfig.trackName)
    /\ tables' = [tables EXCEPT !.DEFAULT_TRACK_DATA = trackData']
    /\ currentPosition' = Doc.carProfile.startingGridPosition
    /\ currentLap' = 0
    /\ fuelLoad' = trackData'.startingFuelKg
    /\ stintIdx' = 0
    /\ lapData' = <<>>
    /\ stintMetrics' = <<>>
    /\ simWarnings' = <<>>
    /\ totalPitTimeLoss' = 0
    /\ UNCHANGED <<parserVars, routeVars, llmVars, reportVars, lapInStint,
                   stintStartPosition, sim, history>>

simulateRace ==
    /\ pc = "simulate"
    /\ stage \in {"direct", "simulate"}
    /\ pc' = "stint"
    /\ trackData' = getTrackData(Doc.raceConfig.trackName)
    /\ currentPosition' = Doc.carProfile.startingGridPosition
    /\ currentLap' = 0
    /\ fuelLoad' = trackData'.startingFuelKg
    /\ stintIdx' = 0
    /\ lapData' = <<>>
    /\ stintMetrics' = <<>>
    /\ simWarnings' = <<>>
    /\ totalPitTimeLoss' = 0
    /\ UNCHANGED <<parserVars, otherVars, lapInStint, stintStartPosition, sim, history>>

\* for (stintIdx ...): loop header and the set-up of one stint, with its two
\* warning checks
BeginStint ==
    /\ pc = "stint"
    /\ stintIdx < Len(Stints)
    /\ IF Undefined(tables.TIRE_PROFILES, CurrentStint.tireCompound)
       THEN /\ pc' = "raised"
            /\ UNCHANGED <<stintStartPosition, lapInStint, simWarnings>>
       ELSE /\ pc' = "lap"
            /\ stintStartPosition' = currentPosition
            /\ lapInStint' = 0
            /\ simWarnings' = simWarnings
                              \o StintWarnings(CurrentStint, Doc.raceConfig.weather)
    /\ UNCHANGED <<parserVars, otherVars, currentPosition, currentLap, stintIdx, fuelLoad, lapData,
                   stintMetrics, sim, trackData, totalPitTimeLoss, history>>

\* for (lapInStint = 1; lapInStint <= stint.lapsInStint; lapInStint++)
\* Variant that stops one lap early:
LapLoopContinues_OffByOne(lap, stint) == lap < stint.lapsInStint
LapLoopContinues(lap, stint) == lap <= stint.lapsInStint

\* const isPitLap = lapInStint === stint.lapsInStint && !isLastStint
\* Variant that takes the last lap of every stint for a pit lap:
IsPitLap_EveryStint(lap, stint, isLastStint) == lap = stint.lapsInStint
\* Variant that pits on the first lap of a non-final stint:
IsPitLap_FirstLap(lap, stint, isLastStint) == lap = 1 /\ ~isLastStint
IsPitLap(lap, stint, isLastStint) == lap = stint.lapsInStint /\ ~isLastStint

\* trackData.pitLaneTimeLoss * riskEffect.pitStopEfficiency, in hundredths of
\* a second
\* fuelLoad = Math.max(0, fuelLoad - trackData.fuelConsumptionPerLap)
\* Variant without the floor at zero:
BurnFuel_NoFloor(fuel, perLap) == fuel - perLap
BurnFuel(fuel, perLap) == Max(0, fuel - perLap)

PitTimeLoss(track, riskEffect) == track.pitLaneTimeLoss * riskEffect.pitStopEfficiency

\* The property reads of one lap that throw a TypeError when what they read
\* from is undefined: paceEffect.lapTimeDelta, the tire profile and the risk
\* effect in calculateTireDegradation, and on a pit lap
\* strategy.stints[stintIdx + 1].tireCompound
LapRaises(car, stint, isPitLap) ==
    \/ Undefined(tables.PACE_CLASS_EFFECTS, car.paceClass)
    \/ Undefined(tables.TIRE_PROFILES, stint.tireCompound)
    \/ Undefined(tables.RISK_PROFILE_EFFECTS, car.riskProfile)
    \/ (isPitLap /\ stintIdx + 2 > Len(Stints))

\* One iteration of the lap loop of the current stint
SimulateLap ==
    /\ pc = "lap"
    /\ LapLoopContinues(lapInStint + 1, CurrentStint)
    /\ LET stint == CurrentStint
           lap == lapInStint + 1
           lapNumber == currentLap + 1
           isLastStint == stintIdx = Len(Stints) - 1
           isFirstLap == lapNumber = 1
           isPitLap == IsPitLap(lap, stint, isLastStint)
           pitTimeLoss == IF isPitLap
                          THEN PitTimeLoss(trackData,
                                           tables.RISK_PROFILE_EFFECTS[Doc.carProfile.riskProfile])
                          ELSE 0
           newFuel == BurnFuel(fuelLoad, trackData.fuelConsumptionPerLap)
           overtakeResult == simulateOvertaking(currentPosition, Doc.trackProfile,
                                                Doc.carProfile.paceClass,
                                                Doc.carProfile.riskProfile,
                                                lapNumber, isFirstLap,
                                                Doc.raceConfig.fieldSize)
           event == IF isPitLap THEN "pit_stop"
                    ELSE IF overtakeResult.overtook THEN "overtake"
                    ELSE IF overtakeResult.wasOvertaken THEN "overtaken"
                    ELSE IF isFirstLap THEN "start" ELSE "none"
       IN  IF LapRaises(Doc.carProfile, stint, isPitLap)
           THEN /\ pc' = "raised"
                /\ UNCHANGED <<currentLap, lapInStint, fuelLoad, currentPosition, lapData,
                               totalPitTimeLoss>>
           ELSE /\ pc' = pc
                /\ currentLap' = lapNumber
                /\ lapInStint' = lap
                /\ fuelLoad' = newFuel
                /\ currentPosition' = overtakeResult.newPosition
                /\ totalPitTimeLoss' = totalPitTimeLoss + pitTimeLoss
                /\ lapData' = Append(lapData,
                                     [lapNumber |-> lapNumber,
                                      stintNumber |-> stint.stintNumber,
                                      tireCompound |-> stint.tireCompound,
                                      tireWear |-> calculateTireWear(lap, stint.tireCompound),
                                      fuelLoad |-> newFuel,
                                      position |-> overtakeResult.newPosition,
                                      event |-> event])
    /\ UNCHANGED <<parserVars, otherVars, stintIdx, stintMetrics, stintStartPosition, sim,
                   simWarnings, trackData, history>>

\* End of the lap loop: the stint's metrics
EndStint ==
    /\ pc = "lap"
    /\ ~LapLoopContinues(lapInStint + 1, CurrentStint)
    /\ pc' = "stint"
    /\ stintMetrics' = Append(stintMetrics,
                              [stintNumber |-> CurrentStint.stintNumber,
                               tireCompound |-> CurrentStint.tireCompound,
                               totalLaps |-> CurrentStint.lapsInStint,
                               pitTimeLoss |->
                                  IF stintIdx = Len(Stints) - 1 THEN 0
                                  ELSE PitTimeLoss(trackData,
                                          tables.RISK_PROFILE_EFFECTS[Doc.carProfile.riskProfile]),
                               startPosition |-> stintStartPosition,
                               endPosition |-> currentPosition])
    /\ stintIdx' = stintIdx + 1
    /\ UNCHANGED <<parserVars, otherVars, currentPosition, currentLap, lapInStint, fuelLoad, lapData,
                   stintStartPosition, sim, simWarnings, trackData, totalPitTimeLoss, history>>

\* After all stints: the final metrics
PredictedFinishPosition(position, paceEffect) ==
    Min(paceEffect.realisticFloor, Max(paceEffect.realisticCeiling, position))

\* Variant of the variance that widens the balanced profile as well:
Variance_WideBalanced(riskProfile) == IF riskProfile = "conservative" THEN 1 ELSE 2

Variance(riskProfile) == IF riskProfile = "aggressive" THEN 2 ELSE 1

PositionRange(predicted, paceEffect, riskProfile, fieldSize) ==
    [min |-> Max(paceEffect.realisticCeiling, predicted - Variance(riskProfile)),
     max |-> Min(Min(fieldSize, paceEffect.realisticFloor),
                 predicted + Variance(riskProfile) + 1)]

\* The two probability heuristics, in hundredths (every term of the code is
\* a multiple of 0.01)
probabilityOfPoints(paceEffect, predicted) ==
    IF paceEffect.realisticCeiling > 10
    THEN Max(2, 15 - (predicted - 10) * 1)
    ELSE IF predicted <= 10
         THEN Min(85, 90 - (predicted - paceEffect.realisticCeiling) * 5)
         ELSE Max(5, 35 - (predicted - 10) * 3)

\* Variant without the Math.min / Math.max limits of each branch:
probabilityOfBeatingStartPosition_Unclamped(start, paceEffect, positionsGained) ==
    IF start > paceEffect.typicalFinish
    THEN 50 + (start - paceEffect.typicalFinish) * 8
    ELSE IF start < paceEffect.realisticCeiling
         THEN 30 - (paceEffect.realisticCeiling - start) * 10
         ELSE IF positionsGained >= 0
              THEN 45 + positionsGained * 5
              ELSE 45 + positionsGained * 10

probabilityOfBeatingStartPosition(start, paceEffect, positionsGained) ==
    IF start > paceEffect.typicalFinish
    THEN Min(75, 50 + (start - paceEffect.typicalFinish) * 8)
    ELSE IF start < paceEffect.realisticCeiling
         THEN Max(10, 30 - (paceEffect.realisticCeiling - start) * 10)
         ELSE IF positionsGained >= 0
              THEN Min(65, 45 + positionsGained * 5)
              ELSE Max(20, 45 + positionsGained * 10)

FinishRace ==
    /\ pc = "stint"
    /\ stintIdx >= Len(Stints)
    /\ pc' = "done"
    /\ LET car == Doc.carProfile
           paceEffectFinal == tables.PACE_CLASS_EFFECTS[car.paceClass]
           predicted == PredictedFinishPosition(currentPosition, paceEffectFinal)
           allWarnings == simWarnings \o FinalWarnings(Doc.raceConfig, car, Doc.strategy,
                                                       Doc.trackProfile)
           simResult == [predictedFinishPosition |-> predicted,
                         predictedPositionRange |->
                            PositionRange(predicted, paceEffectFinal, car.riskProfile,
                                          Doc.raceConfig.fieldSize),
                         positionsGained |-> car.startingGridPosition - predicted,
                         probabilityOfPoints |->
                            probabilityOfPoints(paceEffectFinal, predicted),
                         probabilityOfBeatingStartPosition |->
                            probabilityOfBeatingStartPosition(car.startingGridPosition,
                                paceEffectFinal, car.startingGridPosition - predicted),
                         stintMetrics |-> stintMetrics,
                         lapData |-> lapData,
                         warnings |-> allWarnings,
                         totalPitStops |-> Len(Stints) - 1,
                         totalPitTimeLoss |-> totalPitTimeLoss]
       IN  /\ sim' = Some(simResult)
           /\ simWarnings' = allWarnings
           /\ history' = Append(history, [doc |-> Doc, result |-> simResult])
    /\ UNCHANGED <<parserVars, otherVars, currentPosition, currentLap, stintIdx, lapInStint, fuelLoad,
                   lapData, stintMetrics, stintStartPosition, trackData, totalPitTimeLoss>>

\* ---------------------------------------------------------------------------
\* Input texts.  Bounds of the model:
SweepLaps == 20       \* laps of each stint in the simulation sweep
MaxChanceLen == 3     \* longest CHANCE token

RECURSIVE Digits(_)
Digits(n) == IF n < 10 THEN <<n>> ELSE Append(Digits(n \div 10), n % 10)

RaceLineAt(name, laps, weather, field) ==
    [k |-> "RACE", name |-> name, laps |-> laps, weather |-> weather, field |-> field]
RaceLine(laps, weather, field) ==
    RaceLineAt(<<"M", "o", "n", "z", "a">>, laps, weather, field)
CarLine(start, pace, risk, tform, target) ==
    [k |-> "CAR", start |-> start, pace |-> pace, risk |-> risk, tform |-> tform,
     target |-> target]
AeroLine(aero) == [k |-> "TRACK_AERO", aero |-> aero]
OvertakingLine(overtaking, chance) ==
    [k |-> "TRACK_OVERTAKING", overtaking |-> overtaking, chance |-> chance]
StrategyLine == [k |-> "STRATEGY", label |-> "plan"]
StintLine(num, tire, laps) == [k |-> "STINT", num |-> num, tire |-> tire, laps |-> laps]
EndLine == [k |-> "END"]
BlankLine == [k |-> "blank"]
JunkLine == [k |-> "junk"]
CriticalTurnsLine == [k |-> "CRITICAL_TURNS"]
TurnLine == [k |-> "TURN", num |-> <<1>>, name |-> "Prima Variante",
             risk |-> <<"braking", "overtaking">>, note |-> "chicane"]
PreviousWinnerLine == [k |-> "PREVIOUS_WINNER"]
YearLine == [k |-> "YEAR", year |-> <<2, 0, 2, 3>>, label |-> "two-stop"]
StintsHeaderLine == [k |-> "STINTS:"]
PwStintLine(tire, laps) == [k |-> "PW_STINT", tire |-> tire, laps |-> laps]

Half == <<"0", ".", "5">>

\* (a) simulation sweep: well-formed texts over field sizes, start positions
\*     (P0 and one past the field included), pace classes, risk profiles and
\*     overtaking difficulties; two stints of SweepLaps laps.
FieldSizes == {2, 20, 30}

SweepText(f, s, pace, risk, difficulty) ==
    <<RaceLine(Digits(2 * SweepLaps), "normal", Digits(f)),
      CarLine(Digits(s), pace, risk, "omitted", <<0>>),
      AeroLine("drag_reliant"),
      OvertakingLine(difficulty, Half),
      StrategyLine,
      StintLine(<<1>>, "MEDIUM", Digits(SweepLaps)),
      StintLine(<<2>>, "HARD", Digits(SweepLaps)),
      EndLine>>

SweepTexts ==
    UNION { { SweepText(f, s, pace, risk, difficulty) :
                s \in 0..(f + 1), pace \in VALID_PACE_CLASS, risk \in VALID_RISK_PROFILE,
                difficulty \in VALID_OVERTAKING } : f \in FieldSizes }

\* (b) long strategies: stint laps that add up to more than the race's laps
MaxRaceLaps == 100

LongText(raceLaps, plan, pace) ==
    <<RaceLine(Digits(raceLaps), "normal", <<2, 0>>),
      CarLine(<<1, 2>>, pace, "balanced", "NONE", <<0>>),
      AeroLine("balanced"),
      OvertakingLine("easy", Half),
      StrategyLine>>
    \o [n \in 1..Len(plan) |-> StintLine(Digits(n), "HARD", Digits(plan[n]))]
    \o <<EndLine>>

LongTexts ==
    { LongText(raceLaps, plan, pace) :
        raceLaps \in { MaxRaceLaps, MaxRaceLaps + 1 },
        plan \in { <<MaxRaceLaps>>, <<MaxRaceLaps + 1>>, <<MaxRaceLaps, 1>> },
        pace \in VALID_PACE_CLASS }

\* (c) CHANCE tokens: every token of digits and dots up to MaxChanceLen
ChanceChars == {"0", "1", "5", "."}
ChanceTokens == UNION { [1..n -> ChanceChars] : n \in 1..MaxChanceLen }

ChanceText(chance) ==
    <<RaceLine(<<3>>, "normal", <<2, 0>>),
      CarLine(<<7>>, "midfield", "balanced", "P", <<5>>),
      AeroLine("balanced"),
      OvertakingLine("medium", chance),
      StrategyLine,
      StintLine(<<1>>, "SOFT", <<2>>),
      StintLine(<<2>>, "MEDIUM", <<1>>),
      EndLine>>

ChanceTexts == { ChanceText(c) : c \in ChanceTokens }

\* (d) field values: every required line drawn from valid and invalid variants
RaceVariants ==
    { RaceLine(<<3>>, "normal", <<2, 0>>), RaceLine(<<0, 3>>, "WET", <<2>>),
      RaceLine(<<0>>, "normal", <<2, 0>>), RaceLine(<<1, 0, 1>>, "hot", <<3, 0>>),
      RaceLine(<<3>>, "foggy", <<2, 0>>), RaceLine(<<1>>, "cool", <<1>>),
      RaceLine(<<1, 0, 0>>, "Normal", <<3, 1>>) }
CarVariants ==
    { CarLine(<<2>>, "midfield", "balanced", "omitted", <<0>>),
      CarLine(<<0>>, "front_runner", "Aggressive", "NONE", <<0>>),
      CarLine(<<2, 0>>, "MIDFIELD", "conservative", "P", <<8>>),
      CarLine(<<2, 1>>, "backmarker", "balanced", "P", <<0>>),
      CarLine(<<3>>, "slow", "balanced", "omitted", <<0>>),
      CarLine(<<1>>, "backmarker", "wild", "P", <<2, 5>>) }
AeroVariants == { AeroLine("balanced"), AeroLine("BALANCED"), AeroLine("sticky") }
OvertakingVariants ==
    { OvertakingLine("hard", Half), OvertakingLine("HARD", <<"1">>),
      OvertakingLine("never", <<"0">>), OvertakingLine("easy", <<"1", ".", "5">>) }
StintVariants ==
    { <<StintLine(<<1>>, "SOFT", <<3>>)>>,
      <<StintLine(<<1>>, "soft", <<1>>), StintLine(<<2>>, "WET", <<2>>)>>,
      <<StintLine(<<1>>, "hyper", <<3>>)>>,
      <<StintLine(<<1>>, "MEDIUM", <<0>>), StintLine(<<2>>, "HARD", <<3>>)>>,
      <<StintLine(<<7>>, "intermediate", <<0, 2>>)>>,
      <<>> }

ValueTexts ==
    { <<race, car, aero, overtaking, StrategyLine>> \o stints \o <<EndLine>> :
        race \in RaceVariants, car \in CarVariants, aero \in AeroVariants,
        overtaking \in OvertakingVariants, stints \in StintVariants }

\* (e) structure: a full text with both optional blocks, and every text that
\*     differs from it by one replaced, removed or inserted line, or is a
\*     prefix of it
FullText ==
    <<RaceLine(<<3>>, "wet", <<2, 0>>),
      CarLine(<<4>>, "front_runner", "aggressive", "NONE", <<0>>),
      AeroLine("downforce_reliant"),
      OvertakingLine("hard", <<"0", ".", "1">>),
      StrategyLine,
      StintLine(<<1>>, "SOFT", <<2>>),
      StintLine(<<2>>, "HARD", <<1>>),
      EndLine,
      CriticalTurnsLine,
      TurnLine,
      EndLine,
      PreviousWinnerLine,
      YearLine,
      StintsHeaderLine,
      PwStintLine("SOFT", <<1, 5>>),
      PwStintLine("ultra", <<2, 0>>),
      EndLine>>

EditLines ==
    { BlankLine, JunkLine, EndLine, CriticalTurnsLine, TurnLine, PreviousWinnerLine,
      YearLine, StintsHeaderLine, PwStintLine("MEDIUM", <<9>>),
      StintLine(<<3>>, "MEDIUM", <<1>>) }

Prefix(t, n) == SubSeq(t, 1, n)
Suffix(t, n) == SubSeq(t, n, Len(t))          \* from line n on

StructureTexts ==
    { Prefix(FullText, n) : n \in 0..Len(FullText) }
    \cup { Prefix(FullText, n - 1) \o Suffix(FullText, n + 1) : n \in 1..Len(FullText) }
    \cup { Prefix(FullText, n - 1) \o <<l>> \o Suffix(FullText, n + 1) :
            n \in 1..Len(FullText), l \in EditLines }
    \cup { Prefix(FullText, n) \o <<l>> \o Suffix(FullText, n + 1) :
            n \in 0..Len(FullText), l \in EditLines }

\* (f) circuits: every name of the circuit table, written as in the table,
\*     and names in other spellings or without an entry
OtherTrackNames ==
    { <<"s", "p", "a">>, <<"S", "p", "a", "-", "2", "4">>,
      <<"a", "b", "u", "_", "d", "h", "a", "b", "i">>,
      <<"A", "B", "U", "D", "H", "A", "B", "I">>,
      <<"P", "A", "R", "I", "S">>, <<"2", "0", "2", "4">> }

TrackText(name) ==
    <<RaceLineAt(name, <<2>>, "normal", <<2, 0>>),
      CarLine(<<3>>, "front_runner", "balanced", "omitted", <<0>>),
      AeroLine("balanced"),
      OvertakingLine("medium", Half),
      StrategyLine,
      StintLine(<<1>>, "SOFT", <<2>>),
      EndLine>>

TrackTexts == { TrackText(name) : name \in DOMAIN TRACK_DATABASE \cup OtherTrackNames }

\* (g) warnings: weathers, race lengths around the zero-stop threshold, plans
\*     with stints around the tire cliffs, dry and wet compounds, one to three
\*     stints, and a CRITICAL_TURNS block
WarnRaceLaps == {40, 41, 53}

WarnPlans ==
    { <<<<"SOFT", 50>>>>, <<<<"MEDIUM", 41>>>>, <<<<"HARD", 53>>>>,
      <<<<"MEDIUM", 20>>, <<"MEDIUM", 21>>>>,
      <<<<"INTERMEDIATE", 20>>, <<"MEDIUM", 10>>, <<"WET", 11>>>>,
      <<<<"SOFT", 16>>, <<"HARD", 5>>>>,
      <<<<"SOFT", 19>>, <<"SOFT", 20>>>> }

WarnCars ==
    { CarLine(<<1, 2>>, "front_runner", "aggressive", "P", <<0>>),
      CarLine(<<3>>, "backmarker", "conservative", "P", <<2>>) }

WarnTurns ==
    <<CriticalTurnsLine,
      [k |-> "TURN", num |-> <<4>>, name |-> "Lesmo", risk |-> <<"Tire_Stress", "overtaking_zone">>,
       note |-> "long right-hander"],
      TurnLine,
      EndLine>>

WarnText(weather, raceLaps, plan, car, difficulty) ==
    <<RaceLine(Digits(raceLaps), weather, <<2, 0>>),
      car,
      AeroLine("balanced"),
      OvertakingLine(difficulty, Half),
      StrategyLine>>
    \o [n \in 1..Len(plan) |-> StintLine(Digits(n), plan[n][1], Digits(plan[n][2]))]
    \o <<EndLine>> \o WarnTurns

WarnTexts ==
    { WarnText(weather, raceLaps, plan, car, difficulty) :
        weather \in VALID_WEATHER, raceLaps \in WarnRaceLaps, plan \in WarnPlans,
        car \in WarnCars, difficulty \in {"hard", "medium"} }

\* (h) the texts of requests that follow one another in one process
MaxInvocations == 3

RepeatText(start, pace) ==
    <<RaceLine(<<8>>, "normal", <<2, 0>>),
      CarLine(Digits(start), pace, "balanced", "omitted", <<0>>),
      AeroLine("drag_reliant"),
      OvertakingLine("easy", Half),
      StrategyLine,
      StintLine(<<1>>, "SOFT", <<4>>),
      StintLine(<<2>>, "MEDIUM", <<4>>),
      EndLine>>

RepeatTexts == { RepeatText(6, "front_runner"), RepeatText(12, "midfield") }

Texts ==
    SweepTexts \cup LongTexts \cup ChanceTexts \cup ValueTexts \cup StructureTexts
    \cup TrackTexts \cup WarnTexts \cup RepeatTexts

\* The next request of the same process: the pipeline starts again on another
\* text.  Nothing of the finished invocation is kept but the record of what
\* each invocation was given and returned.
NextRequest ==
    /\ pc = "done"
    /\ ~IsNone(sim)
    /\ lines \in RepeatTexts
    /\ Len(history) < MaxInvocations
    /\ lines' \in RepeatTexts
    /\ lineIndex' = 0
    /\ errors' = <<>>
    /\ warnings' = <<>>
    /\ raceConfig' = None
    /\ carProfile' = None
    /\ trackAero' = None
    /\ trackOvertaking' = None
    /\ trackChance' = None
    /\ strategy' = None
    /\ criticalTurns' = <<>>
    /\ previousWinner' = None
    /\ result' = None
    /\ pc' = "parseRace"
    /\ currentPosition' = 0
    /\ currentLap' = 0
    /\ stintIdx' = 0
    /\ lapInStint' = 0
    /\ fuelLoad' = 0
    /\ lapData' = <<>>
    /\ stintMetrics' = <<>>
    /\ stintStartPosition' = 0
    /\ simWarnings' = <<>>
    /\ trackData' = DEFAULT_TRACK_DATA
    /\ totalPitTimeLoss' = 0
    /\ sim' = None
    /\ UNCHANGED <<history, otherVars>>


\* ---------------------------------------------------------------------------
\* LLM integration (generateStrategyDSL, with LLM_PROVIDER = 'openai')
MAX_RETRIES == 3
INITIAL_BACKOFF_MS == 1000

\* A fence line of a markdown code block
FenceLine == [k |-> "fence"]

\* String.trim on a text: leading and trailing empty lines go
RECURSIVE TrimStart(_)
TrimStart(ls) ==
    IF ls # <<>> /\ IsEmptyLine(ls[1]) THEN TrimStart(Tail(ls)) ELSE ls

RECURSIVE TrimEnd(_)
TrimEnd(ls) ==
    IF ls # <<>> /\ IsEmptyLine(ls[Len(ls)]) THEN TrimEnd(SubSeq(ls, 1, Len(ls) - 1))
    ELSE ls

trim(ls) == TrimEnd(TrimStart(ls))

\* trimmed.toUpperCase().startsWith('RACE')
startsWithRACE(ls) == ls # <<>> /\ ls[1].k = "RACE"

\* Positions of the fence lines of a text
Fences(ls) == {n \in 1..Len(ls) : ls[n] = FenceLine}

\* trimmed.match(/```(?:\w*\n)?([\s\S]*?)```/): the text between the first
\* fence and the one that follows it, None when there are not two fences
codeBlockMatch(ls) ==
    IF Cardinality(Fences(ls)) < 2 THEN None
    ELSE LET first == CHOOSE n \in Fences(ls) : \A m \in Fences(ls) : n <= m
             second == CHOOSE n \in Fences(ls) \ {first} :
                            \A m \in Fences(ls) \ {first} : n <= m
         IN  Some(SubSeq(ls, first + 1, second - 1))

LLMFailure(errorType) == [success |-> FALSE, dsl |-> None, errorType |-> Some(errorType)]
LLMSuccess(dsl) == [success |-> TRUE, dsl |-> Some(dsl), errorType |-> None]

validateAndExtractDSL(content) ==
    LET trimmed == trim(content)
        block == codeBlockMatch(trimmed)
    IN  IF trimmed = <<>> THEN LLMFailure("invalid_response")
        ELSE IF ~startsWithRACE(trimmed)
        THEN IF ~IsNone(block) /\ startsWithRACE(trim(Get(block)))
             THEN LLMSuccess(trim(Get(block)))
             ELSE LLMFailure("invalid_response")
        ELSE LLMSuccess(trimmed)

\* What one call of client.chat.completions.create can do: resolve with a
\* content, or throw
ThrownErrors == {"RateLimitError", "APIConnectionError", "APIError", "Error"}

\* if (attempt < retries) { sleep; backoffMs *= 2; continue }
RetryAllowed(n, retries) == n < retries

\* backoffMs *= 2.  Variant that keeps the sleep constant:
NextBackoff_Constant(ms) == ms
NextBackoff(ms) == ms * 2

\* The error type returned when a retryable error is out of attempts
RetryableErrorType(err) ==
    IF err = "RateLimitError" THEN "rate_limit" ELSE "network_error"

\* generateStrategyDSL up to the first attempt: getOpenAIClient throws when
\* OPENAI_API_KEY is not set, and the catch turns that into an api_error
generateStrategyDSL ==
    /\ stage = "generate"
    /\ attempt = 0
    /\ IsNone(llmResult)
    /\ \E apiKey \in BOOLEAN :
        IF apiKey
        THEN /\ attempt' = 1
             /\ backoffMs' = INITIAL_BACKOFF_MS
             /\ UNCHANGED llmResult
        ELSE /\ llmResult' = Some(LLMFailure("api_error"))
             /\ UNCHANGED <<attempt, backoffMs>>
    /\ UNCHANGED <<parserVars, pc, simVars, tables, stage, calls, response, requests,
                   sleeps, attempts, reportVars>>

\* One iteration of the loop of callOpenAIWithRetry, the completion
\* resolving with a content
AttemptResolves(content) ==
    /\ stage = "generate"
    /\ attempt >= 1
    /\ attempt <= MAX_RETRIES
    /\ IsNone(llmResult)
    /\ attempts' = Append(attempts, "content")
    /\ llmResult' = Some(validateAndExtractDSL(content))
    /\ UNCHANGED <<parserVars, pc, simVars, tables, stage, calls, response, requests,
                   attempt, backoffMs, sleeps, reportVars>>

\* One iteration of the loop of callOpenAIWithRetry, the completion throwing
AttemptThrows(err) ==
    /\ stage = "generate"
    /\ attempt >= 1
    /\ attempt <= MAX_RETRIES
    /\ IsNone(llmResult)
    /\ attempts' = Append(attempts, err)
    /\ IF err \in {"RateLimitError", "APIConnectionError"}
       THEN IF RetryAllowed(attempt, MAX_RETRIES)
            THEN /\ sleeps' = Append(sleeps, backoffMs)
                 /\ backoffMs' = NextBackoff(backoffMs)
                 /\ attempt' = attempt + 1
                 \* the loop's test attempt <= retries, and the return after it
                 /\ llmResult' = IF attempt + 1 <= MAX_RETRIES THEN llmResult
                                 ELSE Some(LLMFailure("api_error"))
            ELSE /\ llmResult' = Some(LLMFailure(RetryableErrorType(err)))
                 /\ UNCHANGED <<sleeps, backoffMs, attempt>>
       ELSE /\ llmResult' = Some(LLMFailure("api_error"))
            /\ UNCHANGED <<sleeps, backoffMs, attempt>>
    /\ UNCHANGED <<parserVars, pc, simVars, tables, stage, calls, response, requests,
                   reportVars>>

\* ---------------------------------------------------------------------------
\* Reports (saveReport, deleteReport) and DELETE /api/reports/[id]
\* A file of the reports directory: `${id}.json`, `${id}.txt`, `${id}-laps.csv`
ReportFile(id, suffix, ext) == [id |-> id, suffix |-> suffix, ext |-> ext]
JsonFile(id) == ReportFile(id, "", "json")
TextFile(id) == ReportFile(id, "", "txt")
CsvFile(id) == ReportFile(id, "-laps", "csv")

\* The step of saveReport at which the file system fails (0: none):
\* 1 the JSON report, 2 the text report, 3 the CSV lap data
FailurePoints == 0..3

\* saveReport, on a directory dir, seq reports having been saved before:
\* what is written before the failing step stays
saveReport(dir, seq, hasSimulationResult, failAt) ==
    LET reportId == seq + 1
        fails == failAt \in {1, 2} \/ (failAt = 3 /\ hasSimulationResult)
        written == (IF failAt # 1 THEN {JsonFile(reportId)} ELSE {})
                   \cup (IF failAt \notin {1, 2} THEN {TextFile(reportId)} ELSE {})
                   \cup (IF hasSimulationResult /\ failAt = 0
                         THEN {CsvFile(reportId)} ELSE {})
    IN  [files |-> dir \cup written,
         success |-> ~fails,
         reportId |-> IF fails THEN None ELSE Some(reportId)]

\* deleteReport: each unlink is tried and its failure ignored; kept is the
\* set of files whose unlink failed
deleteReport(dir, reportId, kept) ==
    dir \ ({JsonFile(reportId), TextFile(reportId), CsvFile(reportId)} \ kept)

\* The name of a report file: the part before the last dot, as the sequence
\* of the report id and the suffix (if any), and the extension
FileName(f) ==
    [stem |-> <<f.id>> \o (IF f.suffix = "" THEN <<>> ELSE <<f.suffix>>), ext |-> f.ext]

\* listReports: file.match(/^(\d+-[\w-]+)\.(json|txt|csv)$/) takes all of the
\* name before the extension, suffix included, for the id
listReports(dir) ==
    {[id |-> FileName(f).stem, type |-> f.ext, filename |-> FileName(f)] : f \in dir}

\* getReportContent: reads `${reportId}-laps.csv` for the type csv, and
\* `${reportId}.${type}` otherwise
getReportContent(dir, reportId, type) ==
    LET filename == [stem |-> reportId \o (IF type = "csv" THEN <<"-laps">> ELSE <<>>),
                     ext |-> type]
    IN  [success |-> \E f \in dir : FileName(f) = filename, filename |-> filename]

\* confirmHeader !== 'true' is the refusal.  Variant that takes any header
\* value for a confirmation:
Confirmed_AnyValue(confirmHeader) == confirmHeader # "null"
Confirmed(confirmHeader) == confirmHeader = "true"

\* request.headers.get('X-Confirm-Delete'): "null" stands for no header
ConfirmHeaders == {"null", "true", "false", "yes", "1"}

MaxReports == 2

\* saveReport called on its own
SaveReportCall ==
    /\ reportSeq < MaxReports
    /\ \E hasSimulationResult \in BOOLEAN, failAt \in FailurePoints :
        LET r == saveReport(files, reportSeq, hasSimulationResult, failAt)
        IN  /\ files' = r.files
            /\ reportSeq' = reportSeq + 1
    /\ UNCHANGED <<parserVars, pc, simVars, tables, routeVars, llmVars, deleteResponse>>

\* The DELETE handler of /api/reports/[id]
DELETE ==
    \E id \in 1..MaxReports, confirmHeader \in ConfirmHeaders :
        IF ~Confirmed(confirmHeader)
        THEN /\ deleteResponse' = Some([id |-> id, confirmHeader |-> confirmHeader,
                                        status |-> 400, success |-> FALSE,
                                        requiresConfirmation |-> TRUE])
             /\ UNCHANGED <<parserVars, pc, simVars, tables, routeVars, llmVars, files,
                            reportSeq>>
        ELSE \E kept \in SUBSET {JsonFile(id), TextFile(id), CsvFile(id)} :
             /\ files' = deleteReport(files, id, kept)
             /\ deleteResponse' = Some([id |-> id, confirmHeader |-> confirmHeader,
                                        status |-> 200, success |-> TRUE,
                                        requiresConfirmation |-> FALSE])
             /\ UNCHANGED <<parserVars, pc, simVars, tables, routeVars, llmVars, reportSeq>>

\* ---------------------------------------------------------------------------
\* POST /api/strategy
\* validateUserInput, on the fields of the input that the model carries
validateUserInput(data) ==
    LET e1 == IF data.totalLaps < 1 \/ data.totalLaps > 100
              THEN <<"totalLaps is required and must be a number between 1 and 100">>
              ELSE <<>>
        e2 == IF data.startingGridPosition < 1
              THEN <<"startingGridPosition is required and must be a positive number">>
              ELSE <<>>
        e3 == IF data.fieldSize < 2 \/ data.fieldSize > 30
              THEN <<"fieldSize is required and must be between 2 and 30">>
              ELSE <<>>
        e4 == IF data.startingGridPosition > data.fieldSize
              THEN <<"startingGridPosition cannot exceed fieldSize">>
              ELSE <<>>
        errs == e1 \o e2 \o e3 \o e4
    IN  [valid |-> errs = <<>>, errors |-> errs]

\* validateParsedDSL: the issues, which the handler pushes onto the parse
\* result's warnings
RECURSIVE StintIssues(_, _, _)
StintIssues(stints, totalLaps, n) ==
    IF n > Len(stints) THEN <<>>
    ELSE (IF stints[n].lapsInStint < 1 THEN <<"stint has invalid lap count">> ELSE <<>>)
         \o (IF stints[n].lapsInStint > totalLaps
             THEN <<"stint laps exceed race length">> ELSE <<>>)
         \o StintIssues(stints, totalLaps, n + 1)

validateParsedDSL(data) ==
    LET race == data.raceConfig
        car == data.carProfile
        chance == data.trackProfile.overtakingChance
    IN  (IF race.totalLaps < 1 \/ race.totalLaps > 100
         THEN <<"Total laps is outside reasonable range (1-100)">> ELSE <<>>)
        \o (IF race.fieldSize < 2 \/ race.fieldSize > 30
            THEN <<"Field size is outside reasonable range (2-30)">> ELSE <<>>)
        \o (IF car.startingGridPosition < 1
            THEN <<"Starting position must be at least P1">> ELSE <<>>)
        \o (IF ~IsNone(car.targetMinPosition) /\ Get(car.targetMinPosition) < 1
            THEN <<"Target position must be at least P1">> ELSE <<>>)
        \o (IF ~IsNone(car.targetMinPosition)
               /\ Get(car.targetMinPosition) > race.fieldSize
            THEN <<"Target position cannot exceed field size">> ELSE <<>>)
        \o StintIssues(data.strategy.stints, race.totalLaps, 1)
        \o (IF LessThanZero(chance) \/ GreaterThanOne(chance)
            THEN <<"Overtaking chance must be between 0.0 and 1.0">> ELSE <<>>)

Response(success, errorType, status, reportId, simulationResult) ==
    [success |-> success, errorType |-> errorType, status |-> status,
     reportId |-> reportId, simulationResult |-> simulationResult]

\* Request bodies: text that is not JSON, and user inputs
UserInput(totalLaps, start, field) ==
    [json |-> TRUE, totalLaps |-> totalLaps, startingGridPosition |-> start,
     fieldSize |-> field]

RequestBodies ==
    {[json |-> FALSE], UserInput(8, 6, 20), UserInput(8, 21, 20), UserInput(0, 6, 20)}

\* The handler up to the call of generateStrategyDSL
ReceiveRequest ==
    /\ stage = "request"
    /\ requests' = requests + 1
    /\ \E body \in RequestBodies :
        IF ~body.json \/ ~validateUserInput(body).valid
        THEN /\ response' = Some(Response(FALSE, "validation_error", 400, None, None))
             /\ stage' = "responded"
             /\ UNCHANGED calls
        ELSE /\ stage' = "generate"
             /\ calls' = Append(calls, "generateStrategyDSL")
             /\ UNCHANGED response
    /\ UNCHANGED <<parserVars, pc, simVars, tables, llmResult, llmVars, reportVars>>

\* if (!llmResult.success || !llmResult.dsl)
LLMFailed(r) == ~r.success \/ IsNone(r.dsl)

\* Step 1 done: an error report and the llm_error answer, or Step 2, the
\* call of parseStrategyDSL on the DSL
AfterGenerate ==
    /\ stage = "generate"
    /\ ~IsNone(llmResult)
    /\ IF LLMFailed(Get(llmResult))
       THEN \E failAt \in FailurePoints :
            LET saved == saveReport(files, reportSeq, FALSE, failAt) IN
            /\ files' = saved.files
            /\ reportSeq' = reportSeq + 1
            /\ calls' = Append(calls, "saveReport")
            /\ response' = Some(Response(FALSE, "llm_error", 502, None, None))
            /\ stage' = "responded"
            /\ UNCHANGED <<lines, pc>>
       ELSE /\ lines' = Get(Get(llmResult).dsl)
            /\ pc' = "parseRace"
            /\ stage' = "parse"
            /\ calls' = Append(calls, "parseStrategyDSL")
            /\ UNCHANGED <<files, reportSeq, response>>
    /\ UNCHANGED <<lineIndex, errors, warnings, raceConfig, carProfile, trackAero,
                   trackOvertaking, trackChance, strategy, criticalTurns, previousWinner,
                   result, simVars, tables, llmResult, requests, llmVars, deleteResponse>>

\* if (!parseResult.success || !parseResult.data)
ParseFailed(r) == ~r.success \/ IsNone(r.data)

\* The answer to a failed parse.  Variant that answers as for a failed LLM
\* call:
ParseFailureResponse_AsLLMError(reportId) == Response(FALSE, "llm_error", 502, None, None)
ParseFailureResponse(reportId) == Response(FALSE, "parse_error", 422, reportId, None)

\* Step 2 done: a parse error report and the parse_error answer, or the range
\* validation and Step 3, the call of simulateRace
AfterParse ==
    /\ stage = "parse"
    /\ ~IsNone(result)
    /\ IF ParseFailed(Get(result))
       THEN \E failAt \in FailurePoints :
            LET saved == saveReport(files, reportSeq, FALSE, failAt) IN
            /\ files' = saved.files
            /\ reportSeq' = reportSeq + 1
            /\ calls' = Append(calls, "saveReport")
            /\ response' = Some(ParseFailureResponse(saved.reportId))
            /\ stage' = "responded"
            /\ pc' = "done"
            /\ UNCHANGED <<warnings, result>>
       ELSE LET issues == validateParsedDSL(Get(Get(result).data)) IN
            /\ warnings' = warnings \o issues
            /\ result' = Some([Get(result) EXCEPT !.warnings = @ \o issues])
            /\ calls' = calls \o <<"validateParsedDSL", "simulateRace">>
            /\ stage' = "simulate"
            /\ pc' = "simulate"
            /\ UNCHANGED <<files, reportSeq, response>>
    /\ UNCHANGED <<lines, lineIndex, errors, raceConfig, carProfile, trackAero,
                   trackOvertaking, trackChance, strategy, criticalTurns, previousWinner,
                   simVars, tables, llmResult, requests, llmVars, deleteResponse>>

\* Step 3 done: the simulation returned or raised.  Step 4: the report is
\* saved, and the handler answers.
AfterSimulate ==
    /\ stage = "simulate"
    /\ pc \in {"done", "raised"}
    /\ \E failAt \in FailurePoints :
        LET saved == saveReport(files, reportSeq, pc = "done", failAt) IN
        /\ files' = saved.files
        /\ reportSeq' = reportSeq + 1
        /\ calls' = Append(calls, "saveReport")
        /\ response' = IF pc = "raised"
                       THEN Some(Response(FALSE, "simulation_error", 500, saved.reportId,
                                          None))
                       ELSE Some(Response(TRUE, "none", 200, saved.reportId, sim))
    /\ stage' = "responded"
    /\ pc' = "done"
    /\ UNCHANGED <<parserVars, simVars, tables, llmResult, requests, llmVars, deleteResponse>>

\* The contents the completion may resolve with: DSL documents, bare, wrapped
\* in empty lines or in a markdown code block, and contents that are no DSL
PostDocuments ==
    RepeatTexts \cup {RepeatText(21, "midfield"), RepeatText(0, "backmarker")}

Contents ==
    PostDocuments
    \cup {<<BlankLine>> \o RepeatText(6, "front_runner") \o <<BlankLine>>,
          <<JunkLine, FenceLine>> \o RepeatText(12, "midfield") \o <<FenceLine, JunkLine>>,
          <<FenceLine, JunkLine, FenceLine>>,
          <<JunkLine, FenceLine>> \o RepeatText(12, "midfield"),
          <<JunkLine>>, <<BlankLine>>, <<>>}

MaxRequests == 2

\* The next POST request of the same process
NextRequestPost ==
    /\ stage = "responded"
    /\ requests < MaxRequests
    /\ stage' = "request"
    /\ calls' = <<>>
    /\ llmResult' = None
    /\ response' = None
    /\ attempt' = 0
    /\ backoffMs' = 0
    /\ sleeps' = <<>>
    /\ attempts' = <<>>
    /\ lines' = <<>>
    /\ lineIndex' = 0
    /\ errors' = <<>>
    /\ warnings' = <<>>
    /\ raceConfig' = None
    /\ carProfile' = None
    /\ trackAero' = None
    /\ trackOvertaking' = None
    /\ trackChance' = None
    /\ strategy' = None
    /\ criticalTurns' = <<>>
    /\ previousWinner' = None
    /\ result' = None
    /\ pc' = "idle"
    /\ currentPosition' = 0
    /\ currentLap' = 0
    /\ stintIdx' = 0
    /\ lapInStint' = 0
    /\ fuelLoad' = 0
    /\ lapData' = <<>>
    /\ stintMetrics' = <<>>
    /\ stintStartPosition' = 0
    /\ simWarnings' = <<>>
    /\ trackData' = DEFAULT_TRACK_DATA
    /\ totalPitTimeLoss' = 0
    /\ sim' = None
    /\ UNCHANGED <<history, tables, requests, reportVars>>

\* ---------------------------------------------------------------------------
\* Initial states.  A call starts with nothing parsed and nothing simulated;
\* the engine's tables are as written in the source; the reports directory is
\* empty.
InitCall ==
    /\ lineIndex = 0
    /\ errors = <<>>
    /\ warnings = <<>>
    /\ raceConfig = None
    /\ carProfile = None
    /\ trackAero = None
    /\ trackOvertaking = None
    /\ trackChance = None
    /\ strategy = None
    /\ criticalTurns = <<>>
    /\ previousWinner = None
    /\ result = None
    /\ currentPosition = 0
    /\ currentLap = 0
    /\ stintIdx = 0
    /\ lapInStint = 0
    /\ fuelLoad = 0
    /\ lapData = <<>>
    /\ stintMetrics = <<>>
    /\ stintStartPosition = 0
    /\ simWarnings = <<>>
    /\ trackData = DEFAULT_TRACK_DATA
    /\ totalPitTimeLoss = 0
    /\ sim = None
    /\ history = <<>>
    /\ tables = DomainTables
    /\ calls = <<>>
    /\ llmResult = None
    /\ response = None
    /\ requests = 0
    /\ attempt = 0
    /\ backoffMs = 0
    /\ sleeps = <<>>
    /\ attempts = <<>>
    /\ files = {}
    /\ reportSeq = 0
    /\ deleteResponse = None

\* parseStrategyDSL called on a text, and simulateRace on its document
Init ==
    /\ lines \in Texts
    /\ pc = "parseRace"
    /\ stage = "direct"
    /\ InitCall

Next ==
    \/ parseRace
    \/ parseCar
    \/ parseTrackAero
    \/ parseTrackOvertaking
    \/ parseStrategy
    \/ parseCriticalTurns
    \/ parsePreviousWinner
    \/ validate
    \/ simulateRace
    \/ BeginStint
    \/ SimulateLap
    \/ EndStint
    \/ FinishRace
    \/ NextRequest

Spec == Init /\ [][Next]_vars

\* The server waiting for a POST /api/strategy request
InitPost ==
    /\ lines = <<>>
    /\ pc = "idle"
    /\ stage = "request"
    /\ InitCall

NextPost ==
    \/ ReceiveRequest
    \/ generateStrategyDSL
    \/ \E content \in Contents : AttemptResolves(content)
    \/ \E err \in ThrownErrors : AttemptThrows(err)
    \/ AfterGenerate
    \/ parseRace
    \/ parseCar
    \/ parseTrackAero
    \/ parseTrackOvertaking
    \/ parseStrategy
    \/ parseCriticalTurns
    \/ parsePreviousWinner
    \/ validate
    \/ AfterParse
    \/ simulateRace
    \/ BeginStint
    \/ SimulateLap
    \/ EndStint
    \/ FinishRace
    \/ AfterSimulate
    \/ NextRequestPost

SpecPost == InitPost /\ [][NextPost]_vars

\* The reports directory, written by saveReport and served by the reports API
InitReports ==
    /\ lines = <<>>
    /\ pc = "idle"
    /\ stage = "reports"
    /\ InitCall

NextReports ==
    \/ SaveReportCall
    \/ DELETE

SpecReports == InitReports /\ [][NextReports]_vars


\* ---------------------------------------------------------------------------
\* Properties
Parsed == ~IsNone(result)
Accepted == Parsed /\ Get(result).success
SimDone == ~IsNone(sim)
PaceEffect == PACE_CLASS_EFFECTS[Doc.carProfile.paceClass]
HasError(message) == \E n \in 1..Len(errors) : errors[n].message = message
HasWarning(w) == \E n \in 1..Len(warnings) : warnings[n] = w

\* C1: for every accepted document, predictedFinishPosition lies within
\* [realisticCeiling, realisticFloor] of the pace class and within [1, fieldSize].
C1_FinishWithinEnvelopeAndField ==
    SimDone =>
        LET p == Get(sim).predictedFinishPosition IN
        /\ PaceEffect.realisticCeiling <= p /\ p <= PaceEffect.realisticFloor
        /\ 1 <= p /\ p <= Doc.raceConfig.fieldSize

\* C2: for every accepted document, predictedPositionRange.min <=
\* predictedFinishPosition <= predictedPositionRange.max.
C2_RangeBracketsPrediction ==
    SimDone =>
        /\ Get(sim).predictedPositionRange.min <= Get(sim).predictedFinishPosition
        /\ Get(sim).predictedFinishPosition <= Get(sim).predictedPositionRange.max

\* C3: parsing is total: every text gets a result, which is either a success
\* with a document and no diagnostics or a failure with no document and at
\* least one diagnostic; until the result exists the parser can take a step.
C3_ParseTotal ==
    /\ ~Parsed => ENABLED Next
    /\ Parsed =>
        LET r == Get(result) IN
        \/ r.success /\ ~IsNone(r.data) /\ Len(r.errors) = 0
        \/ ~r.success /\ IsNone(r.data) /\ Len(r.errors) > 0

C3_Witness ==
    Parsed /\ ~Get(result).success /\ IsNone(Get(result).data) /\ Len(Get(result).errors) >= 2

\* C4: for every accepted document, the starting grid position lies in
\* 1..fieldSize.
C4_StartWithinField ==
    Accepted =>
        /\ 1 <= Doc.carProfile.startingGridPosition
        /\ Doc.carProfile.startingGridPosition <= Doc.raceConfig.fieldSize

\* C5: for every accepted document, every LapRecord has a running position
\* in 1..fieldSize.
C5_LapPositionsWithinField ==
    Accepted =>
        \A n \in 1..Len(lapData) :
            1 <= lapData[n].position /\ lapData[n].position <= Doc.raceConfig.fieldSize

IsDecimalLiteral(cs) ==
    /\ Cardinality({j \in 1..Len(cs) : cs[j] = "."}) <= 1
    /\ \E j \in 1..Len(cs) : cs[j] # "."

ChanceTokenOf(text) ==
    LET S == {n \in 1..Len(text) : TRACK_OVERTAKING_PATTERN(text[n])}
    IN  text[CHOOSE n \in S : \A m \in S : n <= m].chance

C9_ChanceInUnitInterval ==
    Accepted =>
        LET c == Doc.trackProfile.overtakingChance IN
        /\ ~c.nan /\ 0 <= c.num /\ c.num <= c.den
        /\ IsDecimalLiteral(ChanceTokenOf(lines))

\* C10: for every accepted document: totalLaps is in 1..100, fieldSize is in
\* 2..30, weather, pace class, risk profile, aero classification and
\* overtaking difficulty are members of their enums, the stint list is
\* non-empty and every stint's tire compound is one of the five compounds.
C10_AcceptedDocumentWellFormed ==
    Accepted =>
        /\ Doc.raceConfig.totalLaps \in 1..100
        /\ Doc.raceConfig.fieldSize \in 2..30
        /\ Doc.raceConfig.weather \in {"cool", "normal", "hot", "wet"}
        /\ Doc.carProfile.paceClass \in {"front_runner", "midfield", "backmarker"}
        /\ Doc.carProfile.riskProfile \in {"conservative", "balanced", "aggressive"}
        /\ Doc.trackProfile.aeroClassification
                \in {"downforce_reliant", "drag_reliant", "balanced"}
        /\ Doc.trackProfile.overtakingDifficulty \in {"easy", "medium", "hard"}
        /\ Len(Stints) >= 1
        /\ \A n \in 1..Len(Stints) :
                Stints[n].tireCompound \in {"SOFT", "MEDIUM", "HARD", "INTERMEDIATE", "WET"}

C10_Witness ==
    /\ Accepted
    /\ lines[1].weather = "WET" /\ Doc.raceConfig.weather = "wet"
    /\ Doc.raceConfig.fieldSize = 2
    /\ Len(Stints) = 2 /\ Stints[1].tireCompound = "SOFT"

\* C11: when the RACE line and the CAR line are read and the CAR line's START
\* is greater than the RACE line's FIELD, the parse fails and the diagnostics
\* include the one of section CAR about the starting position, whatever the
\* other lines of the text are. The diagnostic is given in that case only.
HasStartDiagnostic ==
    \E n \in 1..Len(errors) :
        /\ errors[n].section = "CAR"
        /\ errors[n].message = "Starting position exceeds field size"

C11_StartBeyondFieldFails ==
    Parsed =>
        /\ (/\ ~IsNone(raceConfig) /\ ~IsNone(carProfile)
            /\ Get(carProfile).startingGridPosition > Get(raceConfig).fieldSize)
                => ~Get(result).success /\ HasStartDiagnostic
        /\ HasStartDiagnostic =>
                /\ ~IsNone(raceConfig) /\ ~IsNone(carProfile)
                /\ Get(carProfile).startingGridPosition > Get(raceConfig).fieldSize

\* START one past FIELD, in a text whose other lines are valid and in a text
\* with diagnostics of other sections
C11_Witness ==
    /\ Parsed /\ HasStartDiagnostic
    /\ Get(carProfile).startingGridPosition = Get(raceConfig).fieldSize + 1
    /\ \E n \in 1..Len(errors) : errors[n].section = "TRACK"

\* C12: the lap-sum check is non-blocking and exact: for every text with a
\* RACE line and a STRATEGY block read, the warnings hold exactly one
\* lap-mismatch warning when the stint laps do not add up to the race's LAPS
\* and none when they do; the mismatch adds no diagnostic, so a text that is
\* valid otherwise is accepted with the warning.
LapMismatchWarnings == {n \in 1..Len(warnings) : warnings[n] = "does not match race laps"}

StintLapsTotal(stints) ==
    LET RECURSIVE Total(_)
        Total(n) == IF n > Len(stints) THEN 0 ELSE stints[n].lapsInStint + Total(n + 1)
    IN  Total(1)

IsWeatherCritical(w) == w.type = "weather" /\ w.severity = "critical"
IsDryCompound(stint) == stint.tireCompound \notin {"INTERMEDIATE", "WET"}

C13_WetWeatherWarnings ==
    /\ (/\ Accepted /\ Doc.raceConfig.weather = "wet"
        /\ \A n \in 1..Len(Stints) : IsDryCompound(Stints[n]))
            => Cardinality({n \in 1..Len(Get(result).warnings) :
                    Get(result).warnings[n] = "no wet or intermediate tires"}) = 1
    /\ SimDone =>
        LET given == SelectSeq(Get(sim).warnings, IsWeatherCritical)
            dry == IF Doc.raceConfig.weather = "wet" THEN SelectSeq(Stints, IsDryCompound)
                   ELSE <<>>
        IN  /\ Len(given) = Len(dry)
            /\ \A n \in 1..Len(given) : given[n].about = dry[n].stintNumber

\* a wet race on two MEDIUM stints, and a wet race with one dry stint among
\* an INTERMEDIATE and a WET one
C13_Witness ==
    /\ SimDone /\ Doc.raceConfig.weather = "wet"
    /\ Len(SelectSeq(Get(sim).warnings, IsWeatherCritical)) = 2
    /\ Len(Stints) = 2 /\ Stints[1].tireCompound = "MEDIUM" /\ Stints[2].tireCompound = "MEDIUM"
    /\ HasWarning("no wet or intermediate tires")

\* C14: the warnings returned by simulateRace include the strategy/high
\* warning about the zero-stop risk exactly when the strategy has one stint
\* and the race has more than 40 total laps; it is given once.
IsZeroStopWarning(w) ==
    w.type = "strategy" /\ w.severity = "high" /\ w.message = "zero-stop strategy on long race"

C14_ZeroStopWarning ==
    SimDone =>
        Len(SelectSeq(Get(sim).warnings, IsZeroStopWarning)) =
            IF Len(Stints) = 1 /\ Doc.raceConfig.totalLaps > 40 THEN 1 ELSE 0

\* one stint on a 41-lap race
C14_Witness ==
    /\ SimDone /\ Len(Stints) = 1 /\ Doc.raceConfig.totalLaps = 41
    /\ \E n \in 1..Len(Get(sim).warnings) : IsZeroStopWarning(Get(sim).warnings[n])

\* C15: for every simulated lap tireWear is in [0,1]; within a stint it does
\* not decrease from lap to lap; on the first lap of every stint it is the
\* value for lap 1 of the stint's compound, 1 / (1.5 * cliffLap).
LapsBefore(stints, i) ==
    LET RECURSIVE Before(_)
        Before(j) == IF j = 0 THEN 0 ELSE Before(j - 1) + stints[j].lapsInStint
    IN  Before(i - 1)

C15_TireWear ==
    Accepted =>
        \A i \in 1..Len(Stints) : \A lap \in 1..Stints[i].lapsInStint :
            LET n == LapsBefore(Stints, i) + lap IN
            n <= Len(lapData) =>
                LET wear == lapData[n].tireWear IN
                /\ 0 <= wear.num /\ wear.num <= wear.den
                /\ lap > 1 => lapData[n - 1].tireWear.num * wear.den
                                <= wear.num * lapData[n - 1].tireWear.den
                /\ lap = 1 => 3 * TIRE_PROFILES[Stints[i].tireCompound].cliffLap * wear.num
                                = 2 * wear.den

\* a stint worn to 1 followed by the first lap of the next stint
C15_Witness ==
    /\ Accepted /\ Len(lapData) >= 2
    /\ lapData[Len(lapData) - 1].tireWear.num = lapData[Len(lapData) - 1].tireWear.den
    /\ lapData[Len(lapData)].tireWear.num < lapData[Len(lapData)].tireWear.den
    /\ lapData[Len(lapData) - 1].tireCompound = lapData[Len(lapData)].tireCompound

\* C16: simulateRace returns one StintMetrics per stint of the strategy, in
\* order, and their totalLaps add up to the number of LapRecords.
C16_StintLapsCoverLapRecords ==
    SimDone =>
        LET metrics == Get(sim).stintMetrics
            RECURSIVE Laps(_)
            Laps(n) == IF n = 0 THEN 0 ELSE Laps(n - 1) + metrics[n].totalLaps
        IN  /\ Len(metrics) = Len(Stints)
            /\ \A n \in 1..Len(metrics) : metrics[n].stintNumber = Stints[n].stintNumber
            /\ Laps(Len(metrics)) = Len(Get(sim).lapData)

C16_Witness ==
    /\ SimDone /\ Len(Get(sim).stintMetrics) = 3
    /\ Len(Get(sim).lapData) = 41

StrategyLineNumber ==
    CHOOSE n \in 1..Len(lines) :
        /\ STRATEGY_START_PATTERN(lines[n])
        /\ \A m \in 1..(n - 1) : ~STRATEGY_START_PATTERN(lines[m])

C18_StrategyClosedByEnd ==
    Accepted => \E n \in (StrategyLineNumber + 1)..Len(lines) : IsEnd(lines[n])

\* C19: once simulateRace has looked the circuit up, the track data are the
\* defaults overridden by the circuit's entry when the race's track name is
\* a name of the circuit table, and the defaults when the name, normalised,
\* has no entry.
C19_TableNamesResolve ==
    (Accepted /\ pc \in {"stint", "lap", "done"}) =>
        LET name == Doc.raceConfig.trackName IN
        /\ name \in DOMAIN TRACK_DATABASE =>
                trackData = SpreadOver(DEFAULT_TRACK_DATA, TRACK_DATABASE[name])
        /\ (name \notin DOMAIN TRACK_DATABASE
                /\ StripNonLetters(name) \notin DOMAIN TRACK_DATABASE) =>
                trackData = DEFAULT_TRACK_DATA

\* C20: on every lap after the first lap of the race the running position
\* differs from the previous lap's by at most one place; and from any position
\* reached in a race, a regular lap of any lap number moves the car by at
\* most one place.
Distance(a, b) == IF a < b THEN b - a ELSE a - b

C20_OnePlacePerLap ==
    Accepted =>
        /\ \A n \in 2..Len(lapData) :
                Distance(lapData[n].position, lapData[n - 1].position) <= 1
        /\ pc \in {"stint", "lap"} =>
            \A lapNo \in 2..(MaxRaceLaps + 1) :
                Distance(currentPosition,
                         simulateOvertaking(currentPosition, Doc.trackProfile,
                                            Doc.carProfile.paceClass,
                                            Doc.carProfile.riskProfile, lapNo, FALSE,
                                            Doc.raceConfig.fieldSize).newPosition) <= 1

\* a race with a gain and a loss of one place after the first lap
C20_Witness ==
    /\ Accepted
    /\ \E n \in 2..Len(lapData) : lapData[n].position = lapData[n - 1].position - 1
    /\ \E n \in 2..Len(lapData) : lapData[n].position = lapData[n - 1].position + 1

\* ---------------------------------------------------------------------------
\* The lookups of simulateRace on the document d are all defined
LookupsDefined(d) ==
    /\ ~Undefined(tables.PACE_CLASS_EFFECTS, d.carProfile.paceClass)
    /\ ~Undefined(tables.RISK_PROFILE_EFFECTS, d.carProfile.riskProfile)
    /\ \A i \in 1..Len(d.strategy.stints) :
            ~Undefined(tables.TIRE_PROFILES, d.strategy.stints[i].tireCompound)
    /\ DOMAIN getTrackData(d.raceConfig.trackName) = DOMAIN DEFAULT_TRACK_DATA

IsPitStop(rec) == rec.event = "pit_stop"

\* C21: on a document that parseStrategyDSL accepted, no step of
\* simulateRace raises: the tire profile, pace class, risk profile and track
\* data lookups are defined, and whenever the lap about to be run is a pit
\* lap the stint after the current one exists.
C21_SimulateRaceNeverRaises ==
    /\ pc # "raised"
    /\ Accepted => LookupsDefined(Doc)
    /\ (pc = "lap" /\ LapLoopContinues(lapInStint + 1, CurrentStint)) =>
            ~LapRaises(Doc.carProfile, CurrentStint,
                       IsPitLap(lapInStint + 1, CurrentStint, stintIdx = Len(Stints) - 1))

\* a simulation that made a pit stop and ran its final stint to the end
C21_Witness ==
    /\ SimDone
    /\ Len(Stints) >= 2
    /\ \E n \in 1..Len(Get(sim).lapData) : IsPitStop(Get(sim).lapData[n])
    /\ Len(Get(sim).stintMetrics) = Len(Stints)

\* ---------------------------------------------------------------------------
\* The orders in which one POST /api/strategy request may have called the
\* stages so far
StageOrders ==
    {<<>>,
     <<"generateStrategyDSL">>,
     <<"generateStrategyDSL", "saveReport">>,
     <<"generateStrategyDSL", "parseStrategyDSL">>,
     <<"generateStrategyDSL", "parseStrategyDSL", "saveReport">>,
     <<"generateStrategyDSL", "parseStrategyDSL", "validateParsedDSL", "simulateRace">>,
     <<"generateStrategyDSL", "parseStrategyDSL", "validateParsedDSL", "simulateRace",
       "saveReport">>}

Called(f) == \E n \in 1..Len(calls) : calls[n] = f

SimulationStarted == pc \in {"stint", "lap", "raised"} \/ SimDone \/ lapData # <<>>

Responded == ~IsNone(response)

\* C22: one POST /api/strategy request calls its stages in the order
\* generate, parse, simulate, save; the simulation runs only after the
\* handler has seen parseStrategyDSL return success with a document; and a
\* parse that collected diagnostics is answered with errorType parse_error,
\* the simulation never having run.
C22_StagesInOrder ==
    /\ calls \in StageOrders
    /\ Parsed => Called("parseStrategyDSL")
    /\ SimulationStarted =>
            /\ Called("simulateRace")
            /\ Accepted
            /\ ~IsNone(Get(result).data)
            /\ errors = <<>>
    /\ (SimulationStarted /\ pc \in {"stint", "lap"}) => ~Called("saveReport")
    /\ (Parsed /\ errors # <<>> /\ Responded) =>
            /\ Get(response).errorType = "parse_error"
            /\ ~Get(response).success
            /\ ~SimulationStarted
            /\ ~Called("simulateRace")
    /\ (Responded /\ Get(response).success) =>
            calls = <<"generateStrategyDSL", "parseStrategyDSL", "validateParsedDSL",
                      "simulateRace", "saveReport">>

\* a second request answered with parse_error, the first one having run all
\* four stages
C22_Witness ==
    /\ requests = 2
    /\ history # <<>>
    /\ Parsed
    /\ errors # <<>>
    /\ Responded
    /\ Get(response).errorType = "parse_error"
    /\ calls = <<"generateStrategyDSL", "parseStrategyDSL", "saveReport">>

\* ---------------------------------------------------------------------------
\* The line parseCar looks at: the first non-empty line after the one
\* parseRace looked at
CarLineIndex == skipEmpty(skipEmpty(0) + 1)
CarLineRead == LineAt(CarLineIndex)
CarLineMatched ==
    /\ pc \notin {"idle", "parseRace", "parseCar"}
    /\ skipEmpty(0) < Len(lines)
    /\ CarLineIndex < Len(lines)
    /\ CAR_PATTERN(CarLineRead)

\* C23: a CAR line with TARGET=NONE is taken as a CAR line (no format
\* diagnostic) and gives the very car profile that the same line without the
\* TARGET token gives, one with no target position; a CAR line with
\* TARGET=P<n> gives the target n.
C23_TargetNoneIsNoTarget ==
    CarLineMatched =>
        /\ ~IsNone(carProfile)
        /\ ~\E n \in 1..Len(errors) :
                errors[n].line = CarLineIndex + 1 /\ errors[n].message = "Invalid CAR line format"
        /\ LET l == CarLineRead
               profile == Get(carProfile)
           IN  /\ l.tform \in {"NONE", "omitted"} =>
                    profile = [startingGridPosition |-> parseInt(l.start),
                               paceClass |-> toLowerCase(l.pace),
                               riskProfile |-> toLowerCase(l.risk),
                               targetMinPosition |-> None]
               /\ l.tform = "P" => profile.targetMinPosition = Some(parseInt(l.target))

\* an accepted document whose CAR line says TARGET=NONE
C23_Witness ==
    /\ Accepted
    /\ CarLineMatched
    /\ CarLineRead.tform = "NONE"
    /\ IsNone(Doc.carProfile.targetMinPosition)

\* ---------------------------------------------------------------------------
\* LLM call: the sleeps start at INITIAL_BACKOFF_MS and double
RECURSIVE Doubling(_, _)
Doubling(ms, n) == IF n = 0 THEN <<>> ELSE <<ms>> \o Doubling(2 * ms, n - 1)

Retryable(err) == err \in {"RateLimitError", "APIConnectionError"}

LLMReturned == ~IsNone(llmResult)

\* The attempts, the sleeps and the way the call ends
LLMCallShape ==
    /\ Len(attempts) <= MAX_RETRIES
    /\ attempt <= MAX_RETRIES
    \* every attempt but the last one made threw a retryable error
    /\ \A n \in 1..(Len(attempts) - 1) : Retryable(attempts[n])
    \* one sleep before each further attempt, 1000 ms first, doubled each time
    /\ Len(sleeps) = (IF attempt = 0 THEN 0 ELSE attempt - 1)
    /\ sleeps = Doubling(INITIAL_BACKOFF_MS, Len(sleeps))
    /\ \A n \in 1..Len(sleeps) : Retryable(attempts[n])
    /\ Len(attempts) = (IF LLMReturned /\ attempt > 0 THEN attempt ELSE Len(sleeps))
    \* another error ends the call with the failing attempt
    /\ (attempts # <<>> /\ attempts[Len(attempts)] \in {"APIError", "Error"}) =>
            /\ LLMReturned
            /\ Get(llmResult) = LLMFailure("api_error")
    \* a retryable error on the last attempt ends the call too
    /\ (Len(attempts) = MAX_RETRIES /\ Retryable(attempts[MAX_RETRIES])) =>
            /\ LLMReturned
            /\ Get(llmResult) = LLMFailure(RetryableErrorType(attempts[MAX_RETRIES]))
    \* the call resolves to an LLMResult: a DSL, or an error type
    /\ LLMReturned =>
            LET r == Get(llmResult) IN
            IF r.success THEN ~IsNone(r.dsl) /\ IsNone(r.errorType)
            ELSE IsNone(r.dsl) /\ ~IsNone(r.errorType)

\* C24 as stated: the call makes at most 3 attempts, retries only after a
\* rate-limit or connection error and after a sleep that starts at 1000 ms
\* and doubles, ends with the failing attempt on any other error, and a
\* failed call resolves to rate_limit, network_error or api_error.
C24_FailureIsOneOfThree ==
    /\ LLMCallShape
    /\ (LLMReturned /\ ~Get(llmResult).success) =>
            Get(Get(llmResult).errorType) \in {"rate_limit", "network_error", "api_error"}

\* C24, amended: as above, a failed call resolving to rate_limit,
\* network_error, api_error or, when the completion's content is empty or
\* is not DSL, invalid_response.
C24_FailureIsOneOfFour ==
    /\ LLMCallShape
    /\ (LLMReturned /\ ~Get(llmResult).success) =>
            /\ Get(Get(llmResult).errorType)
                    \in {"rate_limit", "network_error", "api_error", "invalid_response"}
            /\ Get(Get(llmResult).errorType) = "invalid_response" <=>
                    (attempts # <<>> /\ attempts[Len(attempts)] = "content")

\* a call that slept twice and failed on its third attempt
C24_Witness ==
    /\ LLMReturned
    /\ sleeps = <<1000, 2000>>
    /\ Len(attempts) = 3
    /\ Get(llmResult) = LLMFailure("rate_limit")

\* ---------------------------------------------------------------------------
\* A step removes report files
FilesRemoved == ~(files \subseteq files')

\* A step is a DELETE request answered as unconfirmed
Refused(r) ==
    /\ ~IsNone(r)
    /\ Get(r).confirmHeader # "true"

\* C25: report files are removed only by a DELETE request whose
\* X-Confirm-Delete header is 'true'; a DELETE request without that header
\* (or with another value) is answered 400 with requiresConfirmation and
\* leaves every report file in place.
C25_DeleteNeedsConfirmation ==
    [][/\ FilesRemoved =>
            /\ ~IsNone(deleteResponse')
            /\ Get(deleteResponse').confirmHeader = "true"
            /\ Get(deleteResponse').success
       /\ (deleteResponse' # deleteResponse /\ Refused(deleteResponse')) =>
            /\ files' = files
            /\ Get(deleteResponse').status = 400
            /\ Get(deleteResponse').requiresConfirmation
            /\ ~Get(deleteResponse').success]_vars

\* a DELETE request without the header, refused, its report still on disk
C25_Witness ==
    /\ ~IsNone(deleteResponse)
    /\ Get(deleteResponse).confirmHeader = "null"
    /\ Get(deleteResponse).status = 400
    /\ {JsonFile(Get(deleteResponse).id), TextFile(Get(deleteResponse).id),
         CsvFile(Get(deleteResponse).id)} \subseteq files

\* ---------------------------------------------------------------------------
\* simulateRace is running, or about to run its first step
InSimulateRace == pc \in {"simulate", "stint", "lap"}

GridPositions(fieldSize) == 0..fieldSize

\* The position after the first lap, from the grid position pos, for the car
\* and track of the document
AfterFirstLap(pos) ==
    simulateOvertaking(pos, Doc.trackProfile, Doc.carProfile.paceClass,
                       Doc.carProfile.riskProfile, 1, TRUE,
                       Doc.raceConfig.fieldSize).newPosition

\* C27: on the first lap a gain never takes the car ahead of its pace
\* class's realistic ceiling, and a car that starts at or ahead of the
\* ceiling gains nothing; in the first LapRecord of every race, and from
\* every grid position for the car of every accepted document.
C27_FirstLapGainStopsAtCeiling ==
    /\ (Accepted /\ lapData # <<>>) =>
            LET start == Doc.carProfile.startingGridPosition
                first == lapData[1].position
            IN  /\ first < start => first >= PaceEffect.realisticCeiling
                /\ start <= PaceEffect.realisticCeiling => first >= start
    /\ (Accepted /\ pc = "stint" /\ stintIdx = 0) =>
            \A pos \in GridPositions(Doc.raceConfig.fieldSize) :
                /\ AfterFirstLap(pos) < pos =>
                        AfterFirstLap(pos) >= PaceEffect.realisticCeiling
                /\ pos <= PaceEffect.realisticCeiling => AfterFirstLap(pos) >= pos

\* a race whose first lap gained a place, and a grid position from which the
\* first-lap gain is cut short by the ceiling
C27_Witness ==
    /\ SimDone
    /\ Get(sim).lapData[1].position < Doc.carProfile.startingGridPosition
    /\ Get(sim).lapData[1].event = "overtake"

\* ---------------------------------------------------------------------------
\* C28: on the first lap a loss never takes the car behind its pace class's
\* realistic floor; in the first LapRecord of every race, and from every grid
\* position for the car of every accepted document.
C28_FirstLapLossStopsAtFloor ==
    /\ (Accepted /\ lapData # <<>>) =>
            (lapData[1].position > Doc.carProfile.startingGridPosition =>
                lapData[1].position <= PaceEffect.realisticFloor)
    /\ (Accepted /\ pc = "stint" /\ stintIdx = 0) =>
            \A pos \in GridPositions(Doc.raceConfig.fieldSize) :
                AfterFirstLap(pos) > pos =>
                    AfterFirstLap(pos) <= PaceEffect.realisticFloor

\* ---------------------------------------------------------------------------
\* The variance the risk profile of the document is said to have: 2 for the
\* aggressive profile, 1 for balanced and conservative
StatedVariance == IF Doc.carProfile.riskProfile = "aggressive" THEN 2 ELSE 1

RangeCeiling == PaceEffect.realisticCeiling
RangeFloor == Min(Doc.raceConfig.fieldSize, PaceEffect.realisticFloor)

SumPitTimeLoss(metrics) ==
    LET RECURSIVE Upto(_)
        Upto(j) == IF j = 0 THEN 0 ELSE Upto(j - 1) + metrics[j].pitTimeLoss
    IN  Upto(Len(metrics))

\* The race lap on which stint i ends
LastLapOfStint(stints, i) == LapsBefore(stints, i + 1)

\* C30: the LapRecords tagged 'pit_stop' are exactly the last laps of the
\* non-final stints, while the race runs and in its result; in every
\* simulation their number is totalPitStops, the number of stints less one,
\* StintMetrics.pitTimeLoss of the final stint is zero and totalPitTimeLoss
\* is the sum of StintMetrics.pitTimeLoss.
C30_PitStopsOnStintBoundaries ==
    /\ Accepted =>
            \A n \in 1..Len(lapData) :
                IsPitStop(lapData[n]) <=>
                    \E i \in 1..(Len(Stints) - 1) : n = LastLapOfStint(Stints, i)
    /\ SimDone =>
            LET s == Get(sim)
                pitLaps == {n \in 1..Len(s.lapData) : IsPitStop(s.lapData[n])}
            IN  /\ pitLaps = {LastLapOfStint(Stints, i) : i \in 1..(Len(Stints) - 1)}
                /\ Cardinality(pitLaps) = s.totalPitStops
                /\ s.totalPitStops = Len(Stints) - 1
                /\ Len(s.stintMetrics) = Len(Stints)
                /\ s.stintMetrics[Len(Stints)].pitTimeLoss = 0
                /\ s.totalPitTimeLoss = SumPitTimeLoss(s.stintMetrics)

\* a finished race of at least two stints, with a pit stop and its time loss
C30_Witness ==
    /\ SimDone
    /\ Len(Stints) >= 2
    /\ Get(sim).totalPitStops >= 1
    /\ Get(sim).totalPitTimeLoss > 0
    /\ \E n \in 1..Len(Get(sim).lapData) : IsPitStop(Get(sim).lapData[n])

\* ---------------------------------------------------------------------------
\* The branch for cars that need retirements ahead to score, in hundredths
NeedsRetirementsBranch(predicted) == Max(2, 15 - (predicted - 10))

\* C31: a backmarker's probabilityOfPoints is the value of the branch for
\* cars that need retirements ahead to score, and so never exceeds 0.15.
C31_BackmarkerPointsAtMost15 ==
    (SimDone /\ Doc.carProfile.paceClass = "backmarker") =>
        /\ Get(sim).probabilityOfPoints =
                NeedsRetirementsBranch(Get(sim).predictedFinishPosition)
        /\ Get(sim).probabilityOfPoints <= 15

\* C32: for every accepted document both probabilities of the result lie in
\* [0,1] (0..100 hundredths); so do they for the car of the document from
\* every grid position and with every prediction its pace class allows.
C32_ProbabilitiesInUnitInterval ==
    SimDone =>
        /\ 0 <= Get(sim).probabilityOfPoints
        /\ Get(sim).probabilityOfPoints <= 100
        /\ 0 <= Get(sim).probabilityOfBeatingStartPosition
        /\ Get(sim).probabilityOfBeatingStartPosition <= 100
        /\ \A start \in GridPositions(Doc.raceConfig.fieldSize) :
           \A predicted \in PaceEffect.realisticCeiling..PaceEffect.realisticFloor :
                LET points == probabilityOfPoints(PaceEffect, predicted)
                    beating == probabilityOfBeatingStartPosition(start, PaceEffect,
                                                                 start - predicted)
                IN  0 <= points /\ points <= 100 /\ 0 <= beating /\ beating <= 100

\* a car that starts ahead of its ceiling, where only the Math.max keeps the
\* probability of beating the start position from going negative
C32_Witness ==
    /\ SimDone
    /\ Doc.carProfile.startingGridPosition < PaceEffect.realisticCeiling - 3
    /\ Get(sim).probabilityOfBeatingStartPosition = 10

\* ---------------------------------------------------------------------------
\* The steps of parseStrategyDSL, and those of its required sections
ParserStages == {"parseRace", "parseCar", "parseTrack", "parseTrackOvertaking", "parseStrategy", "parseCriticalTurns", "parsePreviousWinner", "validate"}
RequiredStages == {"parseRace", "parseCar", "parseTrack", "parseTrackOvertaking", "parseStrategy"}

\* The opening line of the required section at hand matches its pattern
OpeningLineMatches(l) ==
    CASE pc = "parseRace" -> RACE_PATTERN(l)
      [] pc = "parseCar" -> CAR_PATTERN(l)
      [] pc = "parseTrack" -> TRACK_AERO_PATTERN(l)
      [] pc = "parseTrackOvertaking" -> TRACK_OVERTAKING_PATTERN(l)
      [] pc = "parseStrategy" -> STRATEGY_START_PATTERN(l)

\* Each loop over a block, started at any line, ends at or after that line
\* and has consumed one line for every item it collected.
LoopsConsumeLines ==
    \A i \in 0..Len(lines) :
        LET s == StintLoop(i, <<>>, <<>>)
            u == TurnLoop(i, <<>>, <<>>)
            w == PwStintLoop(i, <<>>, <<>>)
        IN  /\ i <= skipEmpty(i) /\ skipEmpty(i) <= Len(lines)
            /\ i <= SkipToEnd(i) /\ SkipToEnd(i) <= Len(lines)
            /\ i + Len(s.stints) <= s.i /\ s.i <= Len(lines)
            /\ i + Len(u.turns) <= u.i /\ u.i <= Len(lines)
            /\ i + Len(w.stints) <= w.i /\ w.i <= Len(lines)
            /\ i < Len(lines) => (i < s.i /\ i < u.i /\ i < w.i /\ i < SkipToEnd(i))

\* A parser step keeps the text, and leaves the cursor where it is or
\* further on, within the text
CursorStep ==
    (pc \in ParserStages) =>
        (lineIndex <= lineIndex' /\ lineIndex' <= Len(lines) /\ lines' = lines)

\* A required section whose opening line does not match leaves the cursor
\* just past that line
MismatchStep ==
    (/\ pc \in RequiredStages
     /\ skipEmpty(lineIndex) < Len(lines)
     /\ ~OpeningLineMatches(LineAt(skipEmpty(lineIndex))))
        => lineIndex' = skipEmpty(lineIndex) + 1

\* C33: during parseStrategyDSL the line cursor never decreases and never
\* leaves the text; every loop over a block consumes a line per iteration; a
\* required section whose opening line does not match moves the cursor past
\* that line; and every parse that starts ends with a result.
C33_CursorMovesForward ==
    /\ [][CursorStep]_vars
    /\ [](pc = "parseRace" => LoopsConsumeLines)
    /\ [][MismatchStep]_vars
    /\ (pc = "parseRace") ~> Parsed

\* a parse that ended after a required section met a line that is not its
\* opening line, with the cursor past the first line
C33_Witness ==
    /\ Parsed
    /\ lineIndex >= 2
    /\ \E n \in 1..Len(errors) : errors[n].message = "Invalid CAR line format"

\* The parser and the simulation as a sequential program: a step that can be
\* taken is taken.
SpecFair == Init /\ [][Next]_vars /\ WF_vars(Next)

\* ---------------------------------------------------------------------------
\* The lines the five required section parsers read (0-based indexes): each
\* parser skips empty lines and, when a line is left, consumes one line
RaceLineIndex == skipEmpty(0)
AeroLineIndex == skipEmpty(CarLineIndex + 1)
OvertakingLineIndex == skipEmpty(AeroLineIndex + 1)
StrategyLineIndex == skipEmpty(OvertakingLineIndex + 1)

\* The index of the line that ends the block starting at line i: its END
\* line, or the end of the text
RECURSIVE BlockEnd(_)
BlockEnd(i) == IF i < Len(lines) /\ ~IsEnd(LineAt(i)) THEN BlockEnd(i + 1) ELSE i

\* Well-formed lines that carry an invalid value, per section
RaceLineInvalid ==
    /\ RaceLineIndex < Len(lines)
    /\ RACE_PATTERN(LineAt(RaceLineIndex))
    /\ LET l == LineAt(RaceLineIndex) IN
        \/ ~isValidWeather(toLowerCase(l.weather))
        \/ RaceLapsInvalid(parseInt(l.laps))
        \/ FieldSizeInvalid(parseInt(l.field))

CarLineInvalid ==
    /\ CarLineIndex < Len(lines)
    /\ CAR_PATTERN(CarLineRead)
    /\ \/ ~isValidPaceClass(toLowerCase(CarLineRead.pace))
       \/ ~isValidRiskProfile(toLowerCase(CarLineRead.risk))

TrackLinesInvalid ==
    \/ /\ AeroLineIndex < Len(lines)
       /\ TRACK_AERO_PATTERN(LineAt(AeroLineIndex))
       /\ ~isValidAero(toLowerCase(LineAt(AeroLineIndex).aero))
    \/ /\ OvertakingLineIndex < Len(lines)
       /\ TRACK_OVERTAKING_PATTERN(LineAt(OvertakingLineIndex))
       /\ \/ ~isValidOvertaking(toLowerCase(LineAt(OvertakingLineIndex).overtaking))
          \/ ChanceInvalid(parseFloat(LineAt(OvertakingLineIndex).chance))

InvalidStintLines ==
    IF StrategyLineIndex < Len(lines) /\ STRATEGY_START_PATTERN(LineAt(StrategyLineIndex))
    THEN { k \in (StrategyLineIndex + 1)..(BlockEnd(StrategyLineIndex + 1) - 1) :
            /\ STINT_PATTERN(LineAt(k))
            /\ \/ ~isValidTire(toUpperCase(LineAt(k).tire))
               \/ StintLapsInvalid(parseInt(LineAt(k).laps)) }
    ELSE {}

\* The result has a diagnostic of the section for the line at index i
Reported(section, i) ==
    \E n \in 1..Len(Get(result).errors) :
        Get(result).errors[n].section = section /\ Get(result).errors[n].line = i + 1

\* C34: diagnostics are collected across sections in one pass: every
\* well-formed RACE, CAR, TRACK or STINT line that carries an invalid value
\* has a diagnostic of its section, on its line, in the failed result,
\* whatever the other sections carry.
C34_DiagnosticsForEverySection ==
    Parsed =>
        /\ RaceLineInvalid => Reported("RACE", RaceLineIndex)
        /\ CarLineInvalid => Reported("CAR", CarLineIndex)
        /\ TrackLinesInvalid =>
                (Reported("TRACK", AeroLineIndex) \/ Reported("TRACK", OvertakingLineIndex))
        /\ \A k \in InvalidStintLines : Reported("STRATEGY", k)
        /\ (RaceLineInvalid \/ CarLineInvalid \/ TrackLinesInvalid \/ InvalidStintLines # {})
                => (~Get(result).success /\ IsNone(Get(result).data))

\* a failed parse with invalid values in the RACE, CAR, TRACK and STRATEGY
\* sections at once
C34_Witness ==
    /\ Parsed
    /\ RaceLineInvalid /\ CarLineInvalid /\ TrackLinesInvalid /\ InvalidStintLines # {}
    /\ Len(Get(result).errors) >= 4

\* ---------------------------------------------------------------------------
\* C35: every diagnostic of a parse result is line-addressed: its line is
\* the 1-based number of an input line, 1 <= line <= number of input lines,
\* and the starting-position-exceeds-field diagnostic carries the number of
\* the CAR line.
C35_DiagnosticsLineAddressed ==
    Parsed =>
        \A n \in 1..Len(Get(result).errors) :
            LET e == Get(result).errors[n] IN
            /\ 1 <= e.line /\ e.line <= Len(lines)
            /\ e.message = "Starting position exceeds field size" =>
                    e.line = CarLineIndex + 1

\* ---------------------------------------------------------------------------
\* C36: across the whole race the fuelLoad of consecutive LapRecords never
\* increases and is never negative: the first lap starts from the starting
\* fuel, no stint refuels, and each lap removes the per-lap consumption,
\* floored at zero.
C36_FuelNeverIncreases ==
    Accepted =>
        \A n \in 1..Len(lapData) :
            LET before == IF n = 1 THEN trackData.startingFuelKg
                                   ELSE lapData[n - 1].fuelLoad
                fuel == lapData[n].fuelLoad
            IN  /\ 0 <= fuel
                /\ fuel <= before
                /\ fuel = (IF before >= trackData.fuelConsumptionPerLap
                           THEN before - trackData.fuelConsumptionPerLap ELSE 0)

\* a race long enough to burn all the fuel, over more than one stint
C36_Witness ==
    /\ SimDone
    /\ Len(Stints) >= 2
    /\ \E n \in 2..Len(lapData) :
            /\ lapData[n].fuelLoad = 0
            /\ lapData[n - 1].fuelLoad > 0

\* ---------------------------------------------------------------------------
\* C37: stint positions chain: the first stint starts from the starting grid
\* position, each later stint starts from the previous stint's endPosition,
\* every stint's endPosition is the position of its last LapRecord, and the
\* final stint's endPosition is predictedFinishPosition whenever the starting
\* grid position lies within [ceiling, floor].
C37_StintPositionsChain ==
    SimDone =>
        LET s == Get(sim)
            start == Doc.carProfile.startingGridPosition
        IN  /\ Len(s.stintMetrics) = Len(Stints)
            /\ \A i \in 1..Len(s.stintMetrics) :
                    /\ s.stintMetrics[i].startPosition =
                            (IF i = 1 THEN start ELSE s.stintMetrics[i - 1].endPosition)
                    /\ s.stintMetrics[i].endPosition =
                            s.lapData[LastLapOfStint(Stints, i)].position
            /\ (PaceEffect.realisticCeiling <= start /\ start <= PaceEffect.realisticFloor)
                    => s.stintMetrics[Len(Stints)].endPosition = s.predictedFinishPosition

\* ---------------------------------------------------------------------------
\* The cliff lap of a stint's compound, and the cliff warnings of a result
\* that are about the stint number k, by severity
CliffLapOf(stint) == TIRE_PROFILES[stint.tireCompound].cliffLap

CliffWarnings(ws, k) ==
    {n \in 1..Len(ws) : /\ ws[n].message \in {"past cliff", "near cliff"}
                        /\ ws[n].about = k}

StintsNumbered(k) == {i \in 1..Len(Stints) : Stints[i].stintNumber = k}

\* C38: every stint that runs longer than its compound's cliff lap gets
\* exactly one cliff warning, of type 'tire': 'past cliff' with severity
\* 'high' when its laps exceed 1.3 x cliffLap, 'near cliff' with severity
\* 'medium' otherwise; a stint that does not exceed the cliff lap gets none.
\* Warnings name their stint by its stint number, so they are counted per
\* stint number.
C38_OneCliffWarningPerLongStint ==
    SimDone =>
        LET ws == Get(sim).warnings IN
        \A k \in {Stints[i].stintNumber : i \in 1..Len(Stints)} :
            LET long == {i \in StintsNumbered(k) : Stints[i].lapsInStint > CliffLapOf(Stints[i])}
                past == {i \in long : 10 * Stints[i].lapsInStint > 13 * CliffLapOf(Stints[i])}
                cliff == CliffWarnings(ws, k)
            IN  /\ Cardinality(cliff) = Cardinality(long)
                /\ Cardinality({n \in cliff : ws[n].message = "past cliff"}) = Cardinality(past)
                /\ \A n \in cliff :
                        /\ ws[n].type = "tire"
                        /\ ws[n].severity =
                                (IF ws[n].message = "past cliff" THEN "high" ELSE "medium")

\* a race with a stint past the cliff and a stint near the cliff
C38_Witness ==
    /\ SimDone
    /\ Len(Stints) >= 2
    /\ \E n \in 1..Len(Get(sim).warnings) : Get(sim).warnings[n].message = "past cliff"
    /\ \E n \in 1..Len(Get(sim).warnings) : Get(sim).warnings[n].message = "near cliff"

\* ---------------------------------------------------------------------------
\* C39: after any sequence of saveReport and deleteReport calls, every entry
\* (id, type) that listReports returns can be fetched with
\* getReportContent(id, type), the CSV lap data of a successful run included.
C39_ListedReportsCanBeFetched ==
    \A entry \in listReports(files) :
        getReportContent(files, entry.id, entry.type).success
====
